---- MODULE Spec2Model ----
(***************************************************************************)
(* A model of the two flow engines of the repository:                      *)
(*   - prd-quality-gate-flow: business_rules_engine.py (the gate decision  *)
(*     engine) and flow_orchestrator.py (the tree walker);                 *)
(*   - agentic-flow-builder/scripts: flow_orchestrator.py with database.py *)
(*     and business_rules_engine.py.                                       *)
(* JSON objects are functions from key names to values; a key that is      *)
(* missing in the JSON is missing from the function's domain, and          *)
(* dict.get(key, default) is Get(obj, key, default).                       *)
(***************************************************************************)
EXTENDS Integers, Sequences, FiniteSets, TLC

\* ---------------------------------------------------------------- bounds
\* The largest number of rows of the business_rules table.
MaxRules == 2
\* The largest number of rows of the nodes table of a flow.
MaxNodes == 4

\* ------------------------------------------------------- program constants
\* metadata.get('weight', 10)
DefaultWeight == 10
\* gate_config.get('pass_threshold', 80)
DefaultPassThreshold == 80
\* score = 100.0 if passed else 0.0
PassedScore == 100
\* overall_score=100.0 of a gate with no rules
NoRulesScore == 100
\* pass_threshold * 0.7, kept exact as MarginNum / MarginDen
MarginNum == 7
MarginDen == 10

\* ---------------------------------------------------------------- helpers
None == "None"

Get(obj, key, default) == IF key \in DOMAIN obj THEN obj[key] ELSE default

Range(s) == {s[i] : i \in DOMAIN s}

\* ------------------------------------------------------------------ state
VARIABLES
    \* prd-quality-gate-flow's database (prd_flow_builder.py, _create_schema)
    business_rules,     \* rows of table business_rules, in insertion order
    gate_config,        \* nodes.config of the gate node under evaluation
    gate_evaluations,   \* rows of table gate_evaluations, in insertion order
    audit_log,          \* rows of table audit_log, in insertion order
    \* one call of BusinessRulesEngine.evaluate_gate
    call_execution_id,  \* the execution_id argument (None when not given)
    gate_pc,            \* "called" until it returns, then "returned"
    fetched_rules,      \* its local "rules": the rows the query returned
    gate_result,        \* the GateEvaluationResult returned (None before)
    \* the flow and one call of FlowOrchestrator.execute_flow
    nodes,              \* rows of table nodes, in created_at order
    executions,         \* rows of table executions
    node_executions,    \* rows of table node_executions, in insertion order
    working_memory,     \* rows of table working_memory
    agent_assignments,  \* rows of table agent_assignments, in insertion order
    agents,             \* rows of table agents: agent_id and status
    stack,              \* the frames of the execute_node calls in progress
    ctl                 \* what the innermost frame does next

dbVars == <<business_rules, gate_evaluations, audit_log>>
gateVars == <<gate_config, call_execution_id, gate_pc, fetched_rules, gate_result>>
flowVars == <<nodes, executions, node_executions, working_memory,
              agent_assignments, agents, stack, ctl>>

vars == <<business_rules, gate_config, gate_evaluations, audit_log,
          call_execution_id, gate_pc, fetched_rules, gate_result,
          nodes, executions, node_executions, working_memory,
          agent_assignments, agents, stack, ctl>>

\* =========================================================================
\* prd-quality-gate-flow/business_rules_engine.py: the gate decision engine
\* =========================================================================

\* The node id of the gate that evaluate_gate is called for.
GateId == "gate"

\* The node id of another gate of the flow.
OtherGateId == "other_gate"

\* rules.metadata as prd_flow_builder.py writes it: NULL (no keys), weights,
\* and the flags critical, auto_kill_if_fail and requires_human_if_fail.
RuleMetadata ==
    { <<>>,
      [weight |-> 30],
      [weight |-> 40, critical |-> TRUE],
      [critical |-> TRUE, auto_kill_if_fail |-> TRUE],
      [requires_human_if_fail |-> TRUE] }

\* business_rules.priority
Priorities == {90, 100}

\* nodes.config of a gate: gates of prd_flow_builder.py, a gate without
\* configuration, and an automated gate with the decision options of the
\* release gate.
GateConfigs ==
    { <<>>,
      [gate_type |-> "hybrid",
       decision_options |-> <<"GO", "HOLD", "RECYCLE", "KILL">>],
      [gate_type |-> "human", decision_options |-> <<"APPROVE", "DEFER", "REJECT">>],
      [gate_type |-> "automated",
       decision_options |-> <<"RELEASE", "FIX_ISSUES">>],
      [gate_type |-> "hybrid", decision_options |-> <<"PASS", "ITERATE">>,
       pass_threshold |-> 50] }

\* What _evaluate_condition(condition, context) does for one rule on the
\* context of the call: it returns True, returns False, or raises.
ConditionOutcomes == {"true", "false", "raise"}

\* A slip in the query: AND enabled = TRUE is missing.
FetchRules_AnyEnabled(table, gate_id) ==
    LET sel == {i \in DOMAIN table : table[i].gate_node_id = gate_id}
        n == Cardinality(sel)
        orders == {p \in [1..n -> sel] :
                     /\ \A a, b \in 1..n : a # b => p[a] # p[b]
                     /\ \A a, b \in 1..n :
                          a < b => table[p[a]].priority >= table[p[b]].priority}
    IN {[k \in 1..n |-> table[p[k]]] : p \in orders}

\* A slip in the query: gate_node_id = ? is missing.
FetchRules_AnyGate(table, gate_id) ==
    LET sel == {i \in DOMAIN table : table[i].enabled}
        n == Cardinality(sel)
        orders == {p \in [1..n -> sel] :
                     /\ \A a, b \in 1..n : a # b => p[a] # p[b]
                     /\ \A a, b \in 1..n :
                          a < b => table[p[a]].priority >= table[p[b]].priority}
    IN {[k \in 1..n |-> table[p[k]]] : p \in orders}

\* SELECT * FROM business_rules WHERE gate_node_id = ? AND enabled = TRUE
\* ORDER BY priority DESC.  SQL leaves the order of rows of equal priority
\* open: every order the query may return.
FetchRules(table, gate_id) ==
    LET sel == {i \in DOMAIN table :
                   table[i].gate_node_id = gate_id /\ table[i].enabled}
        n == Cardinality(sel)
        orders == {p \in [1..n -> sel] :
                     /\ \A a, b \in 1..n : a # b => p[a] # p[b]
                     /\ \A a, b \in 1..n :
                          a < b => table[p[a]].priority >= table[p[b]].priority}
    IN {[k \in 1..n |-> table[p[k]]] : p \in orders}

\* evaluate_rule: the RuleEvaluationResult of one rule, given what
\* _evaluate_condition does on its condition.
evaluate_rule(rule, outcome) ==
    IF outcome = "raise"
    THEN [rule_id |-> rule.rule_id, passed |-> FALSE, score |-> 0,
          reason |-> "Evaluation error"]
    ELSE [rule_id |-> rule.rule_id,
          passed |-> (outcome = "true"),
          score |-> IF outcome = "true" THEN PassedScore ELSE 0,
          reason |-> IF outcome = "true" THEN "Condition satisfied"
                                         ELSE "Condition not met"]

\* The accumulators of evaluate_gate before its loop.
LoopStart ==
    [rule_results |-> <<>>, total_weight |-> 0, weighted_score |-> 0,
     critical_failures |-> <<>>, recommendations |-> <<>>, auto_kill |-> FALSE]

\* A slip in the auto-kill test: it looks at the rules that passed.
AutoKillFires_OnPass(metadata, result) ==
    result.passed /\ Get(metadata, "auto_kill_if_fail", FALSE)

\* if metadata.get('auto_kill_if_fail'): of a rule that did not pass
AutoKillFires(metadata, result) ==
    ~result.passed /\ Get(metadata, "auto_kill_if_fail", FALSE)

\* A slip in reading the flag: a key the metadata never holds.
IsCritical_WrongKey(metadata) == Get(metadata, "is_critical", FALSE)

\* is_critical = metadata.get('critical', False)
IsCritical(metadata) == Get(metadata, "critical", FALSE)

\* One iteration of "for rule in rules" on the accumulators acc.
RuleStep(acc, rule, outcome) ==
    LET result == evaluate_rule(rule, outcome)
        metadata == rule.metadata
        weight == Get(metadata, "weight", DefaultWeight)
        is_critical == IsCritical(metadata)
    IN [rule_results |-> Append(acc.rule_results, result),
        total_weight |-> acc.total_weight + weight,
        weighted_score |->
            IF result.passed THEN acc.weighted_score + weight * result.score
                             ELSE acc.weighted_score,
        critical_failures |->
            IF ~result.passed /\ is_critical
            THEN Append(acc.critical_failures, rule.rule_id)
            ELSE acc.critical_failures,
        recommendations |->
            IF /\ ~result.passed
               /\ ~AutoKillFires(metadata, result)
               /\ Get(metadata, "requires_human_if_fail", FALSE)
            THEN Append(acc.recommendations, rule.rule_id)
            ELSE acc.recommendations,
        auto_kill |-> AutoKillFires(metadata, result)]

\* A slip in the loop: it stops one rule early.
RECURSIVE RuleLoop_SkipsLast(_, _, _, _)
RuleLoop_SkipsLast(rules, outcomes, i, acc) ==
    IF i >= Len(rules) \/ acc.auto_kill
    THEN acc
    ELSE RuleLoop_SkipsLast(rules, outcomes, i + 1,
                            RuleStep(acc, rules[i], outcomes[i]))

\* The loop "for rule in rules", from rule i on; it is left early by the
\* return of the auto-kill branch (auto_kill = TRUE in what comes back).
RECURSIVE RuleLoop(_, _, _, _)
RuleLoop(rules, outcomes, i, acc) ==
    IF i > Len(rules) \/ acc.auto_kill
    THEN acc
    ELSE RuleLoop(rules, outcomes, i + 1, RuleStep(acc, rules[i], outcomes[i]))

\* A slip in the average: the weighted sum divided by the number of rules.
OverallScore_PerRule(acc) ==
    IF acc.total_weight > 0
    THEN [num |-> acc.weighted_score, den |-> Len(acc.rule_results)]
    ELSE [num |-> 0, den |-> 1]

\* overall_score = (weighted_score / total_weight) if total_weight > 0 else 0,
\* kept exact as the fraction num / den with den > 0.
OverallScore(acc) ==
    IF acc.total_weight > 0
    THEN [num |-> acc.weighted_score, den |-> acc.total_weight]
    ELSE [num |-> 0, den |-> 1]

\* A slip in the comparison: > for >=.
MeetsThreshold_Strict(score, pass_threshold) ==
    score.num > pass_threshold * score.den

\* overall_score >= pass_threshold
MeetsThreshold(score, pass_threshold) ==
    score.num >= pass_threshold * score.den

\* overall_score >= pass_threshold * 0.7
MeetsMargin(score, pass_threshold) ==
    score.num * MarginDen >= pass_threshold * MarginNum * score.den

\* decision = "RECYCLE" if "RECYCLE" in decision_options else "HOLD"
RecycleOrHold(decision_options) ==
    IF "RECYCLE" \in Range(decision_options) THEN "RECYCLE" ELSE "HOLD"

\* The if / elif chain "Determine decision based on gate type and score":
\* the decision, passed and the reason.
DetermineDecision(config, acc) ==
    LET gate_type == Get(config, "gate_type", "automated")
        pass_threshold == Get(config, "pass_threshold", DefaultPassThreshold)
        decision_options == Get(config, "decision_options", <<"GO", "RECYCLE">>)
        overall_score == OverallScore(acc)
    IN IF gate_type = "human"
       THEN [decision |-> "PENDING_HUMAN_REVIEW", passed |-> FALSE,
             reason |-> "Human review required"]
       ELSE IF acc.critical_failures # <<>>
       THEN [decision |-> RecycleOrHold(decision_options), passed |-> FALSE,
             reason |-> "Critical failures"]
       ELSE IF MeetsThreshold(overall_score, pass_threshold)
       THEN [decision |-> IF "GO" \in Range(decision_options) THEN "GO" ELSE "PASS",
             passed |-> TRUE, reason |-> "All checks passed"]
       ELSE IF MeetsMargin(overall_score, pass_threshold)
       THEN IF acc.recommendations # <<>>
            THEN [decision |-> "PENDING_HUMAN_REVIEW", passed |-> FALSE,
                  reason |-> "Marginal score, human review recommended"]
            ELSE [decision |-> RecycleOrHold(decision_options), passed |-> FALSE,
                  reason |-> "Score below threshold"]
       ELSE [decision |-> IF "KILL" \in Range(decision_options) THEN "KILL"
                                                                 ELSE "REJECT",
             passed |-> FALSE, reason |-> "Insufficient score"]

\* _log_gate_evaluation: the rows it inserts into gate_evaluations, one for
\* each rule result.
GateEvaluationRows(execution_id, gate_id, rule_results, decision) ==
    [k \in 1..Len(rule_results) |->
        [execution_id |-> execution_id, gate_node_id |-> gate_id,
         rule_id |-> rule_results[k].rule_id, status |-> decision,
         evaluation_result |-> rule_results[k].passed,
         score |-> rule_results[k].score, reason |-> rule_results[k].reason]]

\* _log_gate_evaluation: the row it inserts into audit_log.
GateAuditRow(execution_id, gate_id, rule_results, decision, score, reason) ==
    [execution_id |-> execution_id, event_type |-> "gate_evaluation",
     actor |-> "BRE",
     event_data |->
        [gate_id |-> gate_id, decision |-> decision, score |-> score,
         reason |-> reason, rules_evaluated |-> Len(rule_results),
         rules_passed |->
            Cardinality({k \in 1..Len(rule_results) : rule_results[k].passed})]]

\* The return of a gate that has no rules: "No rules = automatic pass".
NoRulesReturn(gate_id) ==
    [ret |-> [gate_id |-> gate_id, decision |-> "GO",
              overall_score |-> [num |-> NoRulesScore, den |-> 1],
              passed |-> TRUE, rule_results |-> <<>>,
              reason |-> "No rules configured, automatic pass",
              recommendations |-> <<>>],
     evaluations |-> <<>>, audits |-> <<>>]

\* The return of the auto-kill branch inside the loop.
AutoKillReturn(gate_id, acc) ==
    [ret |-> [gate_id |-> gate_id, decision |-> "KILL",
              overall_score |-> [num |-> 0, den |-> 1],
              passed |-> FALSE, rule_results |-> acc.rule_results,
              reason |-> "Critical failure",
              recommendations |->
                 <<[fix |-> acc.rule_results[Len(acc.rule_results)].rule_id]>>],
     evaluations |-> <<>>, audits |-> <<>>]

\* The return at the end of evaluate_gate, after "if execution_id:" has
\* logged the evaluation.
ScoredReturn(gate_id, config, acc, execution_id) ==
    LET d == DetermineDecision(config, acc)
        overall_score == OverallScore(acc)
        logs == execution_id # None
    IN [ret |-> [gate_id |-> gate_id, decision |-> d.decision,
                 overall_score |-> overall_score, passed |-> d.passed,
                 rule_results |-> acc.rule_results, reason |-> d.reason,
                 recommendations |->
                    [k \in DOMAIN acc.recommendations |->
                        [human_review |-> acc.recommendations[k]]]],
        evaluations |->
            IF logs THEN GateEvaluationRows(execution_id, gate_id,
                                            acc.rule_results, d.decision)
                    ELSE <<>>,
        audits |->
            IF logs THEN <<GateAuditRow(execution_id, gate_id, acc.rule_results,
                                        d.decision, overall_score, d.reason)>>
                    ELSE <<>>]

\* BusinessRulesEngine.evaluate_gate, for the rows its query returned and
\* what evaluating each rule's condition on the context does: what it
\* returns (ret) and the rows it inserts before returning.
evaluate_gate(gate_id, config, rules, outcomes, execution_id) ==
    IF rules = <<>>
    THEN NoRulesReturn(gate_id)
    ELSE LET acc == RuleLoop(rules, outcomes, 1, LoopStart)
         IN IF acc.auto_kill
            THEN AutoKillReturn(gate_id, acc)
            ELSE ScoredReturn(gate_id, config, acc, execution_id)

\* ---------------------------------------------- one call of evaluate_gate
\* The rows the business_rules table may hold.  A disabled row is never
\* read past its enabled column and a row of another gate never past its
\* gate_node_id, so one row stands for all of each kind: the one that
\* would matter most if it were evaluated.
RuleRow(i) ==
    {r \in [rule_id : {i}, gate_node_id : {GateId, OtherGateId},
            enabled : BOOLEAN,
            priority : Priorities, metadata : RuleMetadata] :
        (r.enabled /\ r.gate_node_id = GateId)
           \/ /\ r.priority = 100
              /\ r.metadata = [critical |-> TRUE, auto_kill_if_fail |-> TRUE]
              /\ r.enabled # (r.gate_node_id = GateId)}

RuleTables(n) == {t \in [1..n -> UNION {RuleRow(i) : i \in 1..n}] :
                    \A i \in 1..n : t[i].rule_id = i}

InitGate ==
    /\ business_rules \in UNION {RuleTables(n) : n \in 0..MaxRules}
    /\ gate_config \in GateConfigs
    /\ call_execution_id \in {None, "exec_1"}
    /\ gate_evaluations = <<>>
    /\ audit_log = <<>>
    /\ gate_pc = "called"
    /\ fetched_rules = <<>>
    /\ gate_result = None
    /\ nodes = <<>>
    /\ executions = <<>>
    /\ node_executions = <<>>
    /\ working_memory = {}
    /\ agent_assignments = <<>>
    /\ agents = <<>>
    /\ stack = <<>>
    /\ ctl = [op |-> "idle", arg |-> None]

\* bre.evaluate_gate(gate_id, context, execution_id), from call to return.
CallEvaluateGate ==
    /\ gate_pc = "called"
    /\ gate_pc' = "returned"
    /\ \E rules \in FetchRules(business_rules, GateId) :
       \E outcomes \in [1..Len(rules) -> ConditionOutcomes] :
          LET r == evaluate_gate(GateId, gate_config, rules, outcomes,
                                 call_execution_id)
          IN /\ fetched_rules' = rules
             /\ gate_result' = r.ret
             /\ gate_evaluations' = gate_evaluations \o r.evaluations
             /\ audit_log' = audit_log \o r.audits
    /\ UNCHANGED <<business_rules, gate_config, call_execution_id>>
    /\ UNCHANGED flowVars

NextGate == CallEvaluateGate

SpecGate == InitGate /\ [][NextGate]_vars

\* ------------------------------------------- properties of evaluate_gate
\* The decisions after which the orchestrator goes on to the gate's child.
PassDecisions == {"GO", "PASS", "APPROVE", "RELEASE"}

Returned == gate_pc = "returned"

\* The rule of result k failed and its metadata carries the flag.
FailedWithFlag(k, flag) ==
    /\ ~gate_result.rule_results[k].passed
    /\ Get(business_rules[gate_result.rule_results[k].rule_id].metadata,
           flag, FALSE)

SomeFailedWithFlag(flag) ==
    \E k \in DOMAIN gate_result.rule_results : FailedWithFlag(k, flag)

\* The rows of the table that are the gate's enabled rules.
EnabledRules ==
    {i \in DOMAIN business_rules :
        business_rules[i].gate_node_id = GateId /\ business_rules[i].enabled}

ConfiguredGateType == Get(gate_config, "gate_type", "automated")
ConfiguredThreshold == Get(gate_config, "pass_threshold", DefaultPassThreshold)
ConfiguredOptions ==
    Range(Get(gate_config, "decision_options", <<"GO", "RECYCLE">>))

C5_HumanGateAlwaysPending ==
    (Returned /\ ConfiguredGateType = "human") =>
       gate_result.decision = "PENDING_HUMAN_REVIEW" /\ ~gate_result.passed

\* C6: for a non-human gate with no critical failure and no auto-kill the
\* score s is mapped against the threshold T: s >= T passes; 0.7 T <= s < T
\* gives PENDING_HUMAN_REVIEW when a requires_human_if_fail rule failed and
\* RECYCLE/HOLD when none did; s < 0.7 T gives KILL/REJECT; passed = false
\* in the last three cases.
C6_ScoreBands ==
    (/\ Returned
     /\ ConfiguredGateType # "human"
     /\ ~SomeFailedWithFlag("critical")
     /\ ~SomeFailedWithFlag("auto_kill_if_fail")) =>
       LET s == gate_result.overall_score
           T == ConfiguredThreshold
           atLeastT == s.num >= T * s.den
           atLeastMargin == 10 * s.num >= 7 * T * s.den
       IN /\ atLeastT =>
                gate_result.decision \in PassDecisions /\ gate_result.passed
          /\ (atLeastMargin /\ ~atLeastT) =>
                /\ ~gate_result.passed
                /\ gate_result.decision =
                      IF SomeFailedWithFlag("requires_human_if_fail")
                      THEN "PENDING_HUMAN_REVIEW"
                      ELSE IF "RECYCLE" \in ConfiguredOptions THEN "RECYCLE"
                                                                ELSE "HOLD"
          /\ ~atLeastMargin =>
                /\ ~gate_result.passed
                /\ gate_result.decision \in {"KILL", "REJECT"}

\* A marginal score with a failed requires_human_if_fail rule.
C6_Witness ==
    /\ Returned
    /\ ConfiguredGateType # "human"
    /\ ~SomeFailedWithFlag("critical")
    /\ ~SomeFailedWithFlag("auto_kill_if_fail")
    /\ SomeFailedWithFlag("requires_human_if_fail")
    /\ gate_result.overall_score.num < ConfiguredThreshold * gate_result.overall_score.den
    /\ 10 * gate_result.overall_score.num
          >= 7 * ConfiguredThreshold * gate_result.overall_score.den

\* C7: for a non-human gate in which no auto-kill fires, a failed critical
\* rule gives RECYCLE (when among the decision options) or HOLD with
\* passed = false, whatever the score.
C7_CriticalFailureRecycles ==
    (/\ Returned
     /\ ConfiguredGateType # "human"
     /\ ~SomeFailedWithFlag("auto_kill_if_fail")
     /\ SomeFailedWithFlag("critical")) =>
       /\ ~gate_result.passed
       /\ gate_result.decision =
             IF "RECYCLE" \in ConfiguredOptions THEN "RECYCLE" ELSE "HOLD"

\* A critical rule failed while the score is at or above the threshold.
C7_Witness ==
    /\ Returned
    /\ ConfiguredGateType # "human"
    /\ ~SomeFailedWithFlag("auto_kill_if_fail")
    /\ SomeFailedWithFlag("critical")
    /\ gate_result.overall_score.num
          >= ConfiguredThreshold * gate_result.overall_score.den

\* C8: when evaluate_gate is called with an execution id and returns, one
\* gate-evaluation row for each evaluated rule and one audit-log row for the
\* decision have been inserted, on every return path.
C8_EvaluationLogged ==
    (Returned /\ call_execution_id # None) =>
       /\ Len(gate_evaluations) = Len(gate_result.rule_results)
       /\ \A k \in DOMAIN gate_evaluations :
             gate_evaluations[k].rule_id = gate_result.rule_results[k].rule_id
       /\ Len(audit_log) = 1

NoParent == 0

\* The execution_id of the one call of execute_flow.
ExecutionId == "exec_1"

\* Python's None where a node's output, a dict, is expected.
NoneOutput == [none |-> TRUE]

\* The initial_context argument of execute_flow, and its keys in the
\* order of the dict.
InitialContext == [title |-> "title"]
InitialContextKeys == <<"title">>

\* A set of integers as the sequence of its elements in increasing order.
RECURSIVE SetToSeq(_)
SetToSeq(S) ==
    IF S = {} THEN <<>>
    ELSE LET m == CHOOSE x \in S : \A y \in S : x <= y
         IN <<m>> \o SetToSeq(S \ {m})

\* _get_child_nodes: SELECT * FROM nodes WHERE parent_id = ? ORDER BY
\* created_at, as node ids (the rows of nodes are in created_at order).
GetChildNodes(parent_id) ==
    SetToSeq({i \in DOMAIN nodes : nodes[i].parent_id = parent_id})

\* SELECT * FROM nodes WHERE flow_id = ? AND node_type = 'root' LIMIT 1
RootNodes == {i \in DOMAIN nodes : nodes[i].node_type = "root"}

\* _simulate_agent_output: the placeholder output of an agent type; each
\* value stands for the JSON document of that key.
SimulateAgentOutput(agent_type) ==
    IF agent_type = "prd-creator"
    THEN [prd_document |-> "prd_document", success_metrics |-> "success_metrics",
          dependencies |-> "dependencies"]
    ELSE [status |-> "completed", agent_type |-> agent_type]

\* _set_working_memory: INSERT OR REPLACE on the key (memory_key,
\* execution_id).
SetWorkingMemory(table, execution_id, key, value) ==
    {r \in table : ~(r.memory_key = key /\ r.execution_id = execution_id)}
       \cup {[memory_key |-> key, execution_id |-> execution_id, value |-> value]}

\* A loop of _set_working_memory over the keys (a sequence) that data holds.
RECURSIVE SetAllWorkingMemory(_, _, _, _)
SetAllWorkingMemory(table, execution_id, keys, data) ==
    IF keys = <<>> THEN table
    ELSE SetAllWorkingMemory(
            IF Head(keys) \in DOMAIN data
            THEN SetWorkingMemory(table, execution_id, Head(keys), data[Head(keys)])
            ELSE table,
            execution_id, Tail(keys), data)

\* _get_working_memory: the execution's rows as a dict.
GetWorkingMemory(table, execution_id) ==
    LET rows == {r \in table : r.execution_id = execution_id}
    IN [k \in {r.memory_key : r \in rows} |->
           (CHOOSE r \in rows : r.memory_key = k).value]

\* _log_audit_event: the row it inserts into audit_log.
AuditEvent(execution_id, event_type, event_data) ==
    [execution_id |-> execution_id, event_type |-> event_type,
     actor |-> "system", event_data |-> event_data]

\* What a handler does next: it awaits _execute_node on a child, returns an
\* output, or raises.
Call(node_id) == [op |-> "call", arg |-> node_id]
Return(output) == [op |-> "return", arg |-> output]
Raise(error) == [op |-> "raise", arg |-> error]

\* A frame of _execute_node: the node, the index of its node_executions row,
\* and the loop state of a control-flow handler (the index of the child it
\* awaits and the results it has collected).
Frame(node_id, row) == [node |-> node_id, row |-> row, idx |-> 1, results |-> <<>>]

\* A slip in "Handle decision": KILL and REJECT are treated like HOLD.
GateControl_KillReturns(config, result, children) ==
    IF result.decision \in {"GO", "PASS", "APPROVE", "RELEASE"}
    THEN IF children # <<>> THEN Call(children[1])
         ELSE Return([gate_passed |-> TRUE, decision |-> result.decision])
    ELSE IF result.decision = "RECYCLE"
    THEN IF "recycle_target" \in DOMAIN config
         THEN Return([gate_passed |-> FALSE, decision |-> result.decision,
                      recycle_to |-> config.recycle_target])
         ELSE Return(NoneOutput)
    ELSE IF result.decision \in {"HOLD", "QUEUE", "KILL", "REJECT"}
    THEN Return([gate_passed |-> FALSE, decision |-> result.decision])
    ELSE IF result.decision = "PENDING_HUMAN_REVIEW"
    THEN Return([gate_passed |-> FALSE, decision |-> result.decision,
                 pending_review |-> TRUE])
    ELSE Raise("Unknown gate decision")

\* A slip in "Handle decision": HOLD, QUEUE and PENDING_HUMAN_REVIEW go on
\* to the gate's first child like a pass.
GateControl_BlockedProceeds(config, result, children) ==
    IF result.decision \in {"GO", "PASS", "APPROVE", "RELEASE",
                            "HOLD", "QUEUE", "PENDING_HUMAN_REVIEW"}
    THEN IF children # <<>> THEN Call(children[1])
         ELSE Return([gate_passed |-> TRUE, decision |-> result.decision])
    ELSE IF result.decision = "RECYCLE"
    THEN IF "recycle_target" \in DOMAIN config
         THEN Return([gate_passed |-> FALSE, decision |-> result.decision,
                      recycle_to |-> config.recycle_target])
         ELSE Return(NoneOutput)
    ELSE IF result.decision \in {"KILL", "REJECT"}
    THEN Raise("Gate rejected")
    ELSE Raise("Unknown gate decision")

\* _execute_gate_node, "Handle decision": what the gate does with the result
\* of evaluate_gate.  A RECYCLE without recycle_target falls out of the
\* if / elif chain, and the function returns None.
GateControl(config, result, children) ==
    IF result.decision \in {"GO", "PASS", "APPROVE", "RELEASE"}
    THEN IF children # <<>> THEN Call(children[1])
         ELSE Return([gate_passed |-> TRUE, decision |-> result.decision])
    ELSE IF result.decision = "RECYCLE"
    THEN IF "recycle_target" \in DOMAIN config
         THEN Return([gate_passed |-> FALSE, decision |-> result.decision,
                      recycle_to |-> config.recycle_target])
         ELSE Return(NoneOutput)
    ELSE IF result.decision \in {"HOLD", "QUEUE"}
    THEN Return([gate_passed |-> FALSE, decision |-> result.decision])
    ELSE IF result.decision \in {"KILL", "REJECT"}
    THEN Raise("Gate rejected")
    ELSE IF result.decision = "PENDING_HUMAN_REVIEW"
    THEN Return([gate_passed |-> FALSE, decision |-> result.decision,
                 pending_review |-> TRUE])
    ELSE Raise("Unknown gate decision")

\* _execute_control_flow_node up to its first await: the pattern's branch
\* on the children it fetched.
ControlFlowStart(config, children) ==
    LET pattern == Get(config, "pattern", "prompt_chaining")
    IN IF pattern = "prompt_chaining"
       THEN IF children = <<>> THEN Return(<<>>) ELSE Call(children[1])
       ELSE IF pattern = "parallelization"
       THEN IF children = <<>> THEN Return([parallel_results |-> <<>>])
                               ELSE Call(children[1])
       ELSE IF pattern = "orchestrator_workers"
       THEN IF children = <<>> THEN Return(<<>>) ELSE Call(children[1])
       ELSE Raise("Unknown control flow pattern")

\* _execute_control_flow_node after the child of index frame.idx returned
\* output: the next child of the loop, or the pattern's result.
ControlFlowResume(config, children, frame, output) ==
    LET pattern == Get(config, "pattern", "prompt_chaining")
        results == Append(frame.results, output)
    IN IF frame.idx < Len(children)
       THEN Call(children[frame.idx + 1])
       ELSE IF pattern = "prompt_chaining"
       THEN Return(output)
       ELSE IF pattern = "parallelization"
       THEN Return([parallel_results |-> results])
       ELSE Return([orchestrator |-> Head(results), workers |-> Tail(results)])

\* The handler of the frame's node after the child it awaited returned
\* output.  Root, agent and gate return what their child returned.
HandlerResume(frame, output) ==
    LET node == nodes[frame.node]
    IN IF node.node_type = "control_flow"
       THEN ControlFlowResume(node.config, GetChildNodes(frame.node), frame, output)
       ELSE Return(output)

\* execute_flow up to "await self._execute_node(root_node...)": the
\* executions row, the working memory of the initial context, the audit
\* event and the root lookup.
PrdExecuteFlowBegin ==
    /\ ctl.op = "idle"
    /\ executions = <<>>
    /\ executions' = <<[execution_id |-> ExecutionId, status |-> "running",
                        output_result |-> NoneOutput, error_message |-> None]>>
    /\ working_memory' =
          SetAllWorkingMemory(working_memory, ExecutionId,
                              InitialContextKeys, InitialContext)
    /\ audit_log' = Append(audit_log,
          AuditEvent(ExecutionId, "execution_started",
                     [initial_context_keys |-> DOMAIN InitialContext]))
    /\ ctl' = IF RootNodes = {}
              THEN Raise("No root node found")
              ELSE Call(CHOOSE i \in RootNodes : \A j \in RootNodes : i <= j)
    /\ UNCHANGED <<business_rules, gate_evaluations, gateVars, nodes,
                   node_executions, agent_assignments, agents, stack>>

\* _execute_node from its start to the first await of its handler, or to the
\* handler's return or raise when it awaits nothing: the node_executions
\* row, then _execute_root_node, _execute_agent_node, _execute_gate_node or
\* _execute_control_flow_node.
PrdExecuteNodeBegin ==
    /\ ctl.op = "call"
    /\ LET node_id == ctl.arg
           node == nodes[node_id]
           config == node.config
           children == GetChildNodes(node_id)
       IN /\ node_executions' = Append(node_executions,
                [execution_id |-> ExecutionId, node_id |-> node_id,
                 status |-> "running", output_data |-> NoneOutput])
          /\ stack' = Append(stack, Frame(node_id, Len(node_executions) + 1))
          /\ IF node.node_type = "root"
             THEN /\ ctl' = IF children = <<>>
                            THEN Return([status |-> "no_children"])
                            ELSE Call(children[1])
                  /\ UNCHANGED <<working_memory, dbVars, gate_pc, fetched_rules,
                                 gate_result>>
             ELSE IF node.node_type = "agent"
             THEN LET output == SimulateAgentOutput(Get(config, "agent_type", None))
                  IN /\ working_memory' =
                           SetAllWorkingMemory(working_memory, ExecutionId,
                              Get(config, "working_memory_output", <<>>), output)
                     /\ ctl' = IF children # <<>> THEN Call(children[1])
                                                  ELSE Return(output)
                     /\ UNCHANGED <<dbVars, gate_pc, fetched_rules, gate_result>>
             ELSE IF node.node_type = "gate"
             THEN \E rules \in FetchRules(business_rules, node_id) :
                  \E outcomes \in [1..Len(rules) -> ConditionOutcomes] :
                     LET r == evaluate_gate(node_id, config, rules, outcomes,
                                            ExecutionId)
                     IN /\ fetched_rules' = rules
                        /\ gate_result' = r.ret
                        /\ gate_pc' = "returned"
                        /\ gate_evaluations' = gate_evaluations \o r.evaluations
                        /\ audit_log' = audit_log \o r.audits
                        /\ ctl' = GateControl(config, r.ret, children)
                        /\ UNCHANGED <<working_memory, business_rules>>
             ELSE IF node.node_type = "control_flow"
             THEN /\ ctl' = ControlFlowStart(config, children)
                  /\ UNCHANGED <<working_memory, dbVars, gate_pc, fetched_rules,
                                 gate_result>>
             ELSE /\ ctl' = Raise("Unknown node type")
                  /\ UNCHANGED <<working_memory, dbVars, gate_pc, fetched_rules,
                                 gate_result>>
    /\ UNCHANGED <<gate_config, call_execution_id, nodes, executions,
                   agent_assignments, agents>>

\* _execute_node after its handler returned: "Update node execution as
\* completed" and return output to the caller, whose handler goes on.
PrdExecuteNodeCompleted ==
    /\ ctl.op = "return"
    /\ stack # <<>>
    /\ LET frame == stack[Len(stack)]
           output == ctl.arg
           callers == SubSeq(stack, 1, Len(stack) - 1)
       IN /\ node_executions' =
                [node_executions EXCEPT ![frame.row].status = "completed",
                                        ![frame.row].output_data = output]
          /\ IF callers = <<>>
             THEN /\ stack' = <<>>
                  /\ ctl' = Return(output)
             ELSE LET caller == callers[Len(callers)]
                  IN /\ ctl' = HandlerResume(caller, output)
                     /\ stack' = [callers EXCEPT ![Len(callers)] =
                                    [caller EXCEPT
                                        !.idx = caller.idx + 1,
                                        !.results = Append(caller.results, output)]]
    /\ UNCHANGED <<dbVars, gateVars, nodes, executions, working_memory,
                   agent_assignments, agents>>

\* _execute_node after its handler raised: "Update node execution as
\* failed" and raise again.  No handler catches what a child raises.
PrdExecuteNodeFailed ==
    /\ ctl.op = "raise"
    /\ stack # <<>>
    /\ LET frame == stack[Len(stack)]
       IN /\ node_executions' =
                [node_executions EXCEPT ![frame.row].status = "failed"]
          /\ stack' = SubSeq(stack, 1, Len(stack) - 1)
    /\ UNCHANGED <<ctl, dbVars, gateVars, nodes, executions, working_memory,
                   agent_assignments, agents>>

\* execute_flow after _execute_node(root) returned: "Update execution as
\* completed" with the working memory as the result.
PrdExecuteFlowCompleted ==
    /\ ctl.op = "return"
    /\ stack = <<>>
    /\ executions' =
          [executions EXCEPT ![1].status = "completed",
                             ![1].output_result =
                                 GetWorkingMemory(working_memory, ExecutionId)]
    /\ audit_log' = Append(audit_log,
          AuditEvent(ExecutionId, "execution_completed", [status |-> "success"]))
    /\ ctl' = [op |-> "done", arg |-> None]
    /\ UNCHANGED <<business_rules, gate_evaluations, gateVars, nodes,
                   node_executions, working_memory, agent_assignments, agents, stack>>

\* execute_flow's "except Exception": "Update execution as failed", then
\* the exception leaves execute_flow.
PrdExecuteFlowFailed ==
    /\ ctl.op = "raise"
    /\ stack = <<>>
    /\ executions' =
          [executions EXCEPT ![1].status = "failed",
                             ![1].error_message = ctl.arg]
    /\ audit_log' = Append(audit_log,
          AuditEvent(ExecutionId, "execution_failed", [error |-> ctl.arg]))
    /\ ctl' = [op |-> "done", arg |-> None]
    /\ UNCHANGED <<business_rules, gate_evaluations, gateVars, nodes,
                   node_executions, working_memory, agent_assignments, agents, stack>>

\* ------------------------------------------------ the flows that are run
\* nodes.config of an agent node (stage 1 of prd_flow_builder.py).
AgentConfig ==
    [agent_type |-> "prd-creator",
     working_memory_output |-> <<"prd_document", "success_metrics", "dependencies">>]

\* nodes.config of the control-flow nodes of a flow: the three patterns, the
\* default when the key is missing, and a pattern the walker does not know.
ControlFlowConfigs ==
    { <<>>,
      [pattern |-> "parallelization"],
      [pattern |-> "orchestrator_workers"],
      [pattern |-> "routing"] }

\* The gates of a flow: nodes.config and the (priority, metadata) of the
\* gate's rules, after the gates of prd_flow_builder.py and a gate without
\* configuration.
GateSetups ==
    { [config |-> <<>>,
       rules |-> <<[priority |-> 100, metadata |-> [weight |-> 40, critical |-> TRUE]]>>],
      [config |-> [gate_type |-> "automated", decision_options |-> <<"GO", "RECYCLE">>,
                   recycle_target |-> "stage1_prd_creator", pass_threshold |-> 100],
       rules |-> <<[priority |-> 100, metadata |-> [weight |-> 40, critical |-> TRUE]]>>],
      [config |-> [gate_type |-> "hybrid",
                   decision_options |-> <<"GO", "HOLD", "RECYCLE", "KILL">>,
                   recycle_target |-> "stage1_prd_creator"],
       rules |-> <<[priority |-> 100,
                    metadata |-> [critical |-> TRUE, auto_kill_if_fail |-> TRUE]]>>],
      [config |-> [gate_type |-> "hybrid",
                   decision_options |-> <<"GO", "HOLD", "PIVOT", "KILL">>],
       rules |-> <<[priority |-> 100, metadata |-> [weight |-> 40, critical |-> TRUE]]>>],
      [config |-> [gate_type |-> "human",
                   decision_options |-> <<"APPROVE", "DEFER", "REJECT">>],
       rules |-> <<[priority |-> 100, metadata |-> <<>>]>>],
      [config |-> [gate_type |-> "hybrid", decision_options |-> <<"PASS", "ITERATE">>],
       rules |-> <<[priority |-> 100, metadata |-> <<>>]>>] }

\* The parent_id column of a flow of n nodes: node 1 is the root, and every
\* other node was created under a node created before it.
TreeShapes(n) ==
    {p \in [1..n -> 0..n] :
        \A i \in 1..n : IF i = 1 THEN p[i] = NoParent
                                 ELSE p[i] >= 1 /\ p[i] < i}

\* The nodes table of a flow: create_node for each node, with the names
\* that prd_flow_builder.py gives the nodes of these configurations.
FlowNodes(n, parent, type, setup, cf_config) ==
    [i \in 1..n |->
        [node_id |-> i, parent_id |-> parent[i],
         node_type |-> IF i = 1 THEN "root" ELSE type[i],
         name |-> IF i = 1 THEN "prd_root"
                  ELSE IF type[i] = "agent" THEN "stage1_prd_creator"
                  ELSE IF type[i] = "gate" THEN "gate1_completeness"
                  ELSE "stage3_stakeholder_orchestrator",
         config |-> IF i = 1 THEN <<>>
                    ELSE IF type[i] = "agent" THEN AgentConfig
                    ELSE IF type[i] = "gate" THEN setup.config
                    ELSE cf_config]]

\* The business_rules table of a flow: create_rule for the rules of each
\* gate node, from node i on.
RECURSIVE FlowRules(_, _, _, _)
FlowRules(table, i, rows, setup) ==
    IF i > Len(table) THEN rows
    ELSE FlowRules(table, i + 1,
            IF table[i].node_type = "gate"
            THEN rows \o [k \in 1..Len(setup.rules) |->
                            [rule_id |-> Len(rows) + k, gate_node_id |-> i,
                             enabled |-> TRUE,
                             priority |-> setup.rules[k].priority,
                             metadata |-> setup.rules[k].metadata]]
            ELSE rows,
            setup)

InitPrd ==
    /\ \E n \in 0..MaxNodes :
       \E parent \in TreeShapes(n) :
       \E type \in [1..n -> {"agent", "gate", "control_flow"}] :
       \E setup \in GateSetups :
       \E cf_config \in ControlFlowConfigs :
          /\ nodes = FlowNodes(n, parent, type, setup, cf_config)
          /\ business_rules = FlowRules(nodes, 1, <<>>, setup)
    /\ gate_config = <<>>
    /\ call_execution_id = ExecutionId
    /\ gate_evaluations = <<>>
    /\ audit_log = <<>>
    /\ gate_pc = "idle"
    /\ fetched_rules = <<>>
    /\ gate_result = NoneOutput
    /\ executions = <<>>
    /\ node_executions = <<>>
    /\ working_memory = {}
    /\ agent_assignments = <<>>
    /\ agents = <<>>
    /\ stack = <<>>
    /\ ctl = [op |-> "idle", arg |-> None]

NextPrd ==
    \/ PrdExecuteFlowBegin
    \/ PrdExecuteNodeBegin
    \/ PrdExecuteNodeCompleted
    \/ PrdExecuteNodeFailed
    \/ PrdExecuteFlowCompleted
    \/ PrdExecuteFlowFailed

SpecPrd == InitPrd /\ [][NextPrd]_vars

\* --------------------------------------------- properties of the walker
\* The last gate evaluated decided KILL or REJECT.
GateKilled ==
    gate_pc = "returned" /\ gate_result.decision \in {"KILL", "REJECT"}

\* The flow's prompt-chaining nodes.
ChainNodes ==
    {p \in DOMAIN nodes :
        /\ nodes[p].node_type = "control_flow"
        /\ Get(nodes[p].config, "pattern", "prompt_chaining") = "prompt_chaining"}

\* The execution has ended: execute_flow returned or raised.
FlowEnded == ctl.op = "done"

\* C2: when a gate's decision is KILL or REJECT the gate raises; from then
\* on the gate's NodeExecution stays the last one created (no further node
\* is started), the failure travels up to execute_flow, and the Execution
\* ends failed, never completed.
C2_GateKillTerminates ==
    GateKilled =>
       /\ node_executions[Len(node_executions)].node_id = gate_result.gate_id
       /\ ctl.op \in {"raise", "done"}
       /\ executions[1].status = IF FlowEnded THEN "failed" ELSE "running"

\* A gate with a later sibling under a control-flow node decided KILL or
\* REJECT, and the execution has ended.
C2_Witness ==
    /\ GateKilled
    /\ FlowEnded
    /\ LET g == gate_result.gate_id
       IN /\ nodes[nodes[g].parent_id].node_type = "control_flow"
          /\ \E s \in DOMAIN nodes : s > g /\ nodes[s].parent_id = nodes[g].parent_id

\* The NodeExecution row ended in a state other than completed: failed, or
\* the row of a gate that did not pass (a blocked gate).
EndedNotCompleted(row) ==
    \/ row.status = "failed"
    \/ /\ row.status = "completed"
       /\ nodes[row.node_id].node_type = "gate"
       /\ \/ "none" \in DOMAIN row.output_data
          \/ /\ "gate_passed" \in DOMAIN row.output_data
             /\ ~row.output_data.gate_passed

\* C10: under a prompt-chaining node, once a child has failed or ended as
\* a blocked gate, no NodeExecution is created for a later sibling.
C10_ChainStopsAtFirstNonCompleted ==
    \A a, b \in DOMAIN node_executions :
       LET ci == node_executions[a].node_id
           cj == node_executions[b].node_id
       IN ~ /\ a < b
            /\ ci < cj
            /\ nodes[ci].parent_id = nodes[cj].parent_id
            /\ nodes[ci].parent_id \in ChainNodes
            /\ EndedNotCompleted(node_executions[a])

\* The flow's control-flow nodes of a pattern.
PatternNodes(pattern) ==
    {p \in DOMAIN nodes :
        /\ nodes[p].node_type = "control_flow"
        /\ Get(nodes[p].config, "pattern", "prompt_chaining") = pattern}

\* The NodeExecution row has ended: its node returned or raised.
RowEnded(row) == row.status \notin {"pending", "running", "in_progress"}

\* The NodeExecution rows of a node.
RowsOf(node_id) ==
    {k \in DOMAIN node_executions : node_executions[k].node_id = node_id}

\* The children of a node, in any order.
ChildrenOf(node_id) == {c \in DOMAIN nodes : nodes[c].parent_id = node_id}

\* C11: once a parallelization node has ended, returned or failed, every
\* child of it has been executed exactly once: no child is left out because
\* a sibling failed.
C11_ParallelChildrenAllRun ==
    \A k \in DOMAIN node_executions :
       LET p == node_executions[k].node_id
       IN (p \in PatternNodes("parallelization") /\ RowEnded(node_executions[k]))
             => \A c \in ChildrenOf(p) : Cardinality(RowsOf(c)) = 1

\* The last gate evaluated decided RECYCLE, and its recycle_target names a
\* node of the flow.
GateRecycled ==
    /\ gate_pc = "returned"
    /\ gate_result.decision = "RECYCLE"
    /\ "recycle_target" \in DOMAIN nodes[gate_result.gate_id].config
    /\ \E t \in DOMAIN nodes :
          nodes[t].name = nodes[gate_result.gate_id].config.recycle_target

\* C18: when a gate with a recycle target decided RECYCLE, the target node
\* is executed again: by the end of the execution a NodeExecution of the
\* node named recycle_target has been created after the gate's own.  (The
\* walker has no iteration guard that a bound on the re-entries could be
\* stated with.)
C18_RecycleReexecutesTarget ==
    (GateRecycled /\ FlowEnded)
       => LET g == gate_result.gate_id
              target == nodes[g].config.recycle_target
          IN \E k \in RowsOf(g) : \E j \in DOMAIN node_executions :
                /\ j > k
                /\ nodes[node_executions[j].node_id].name = target

\* Node c lies below node g in the tree.
RECURSIVE IsBelow(_, _)
IsBelow(c, g) ==
    LET p == nodes[c].parent_id
    IN IF p = NoParent THEN FALSE ELSE p = g \/ IsBelow(p, g)

\* The last gate evaluated decided HOLD, QUEUE or PENDING_HUMAN_REVIEW.
GateBlocked ==
    /\ gate_pc = "returned"
    /\ gate_result.decision \in {"HOLD", "QUEUE", "PENDING_HUMAN_REVIEW"}

\* The blocked result of a decision.
BlockedResult(decision) ==
    IF decision = "PENDING_HUMAN_REVIEW"
    THEN [gate_passed |-> FALSE, decision |-> decision, pending_review |-> TRUE]
    ELSE [gate_passed |-> FALSE, decision |-> decision]

\* C19: when a gate decided HOLD, QUEUE or PENDING_HUMAN_REVIEW, no node
\* below the gate has a NodeExecution, and the gate does not raise: it
\* returns the blocked result (gate_passed false, the decision, and
\* pending_review for PENDING_HUMAN_REVIEW), which its NodeExecution keeps.
C19_BlockedGateRunsNothingBelow ==
    GateBlocked =>
       LET g == gate_result.gate_id
           blocked == BlockedResult(gate_result.decision)
       IN /\ \A c \in DOMAIN nodes : IsBelow(c, g) => RowsOf(c) = {}
          /\ \A k \in RowsOf(g) :
                IF node_executions[k].status = "running"
                THEN ctl = Return(blocked)
                ELSE /\ node_executions[k].status = "completed"
                     /\ node_executions[k].output_data = blocked

\* A gate with a child decided PENDING_HUMAN_REVIEW and returned, and the
\* execution has ended.
C19_Witness ==
    /\ GateBlocked
    /\ FlowEnded
    /\ gate_result.decision = "PENDING_HUMAN_REVIEW"
    /\ ChildrenOf(gate_result.gate_id) # {}
    /\ \E k \in RowsOf(gate_result.gate_id) :
          node_executions[k].status = "completed"

\* The last gate evaluated took a pass-class decision.
GatePassed ==
    gate_pc = "returned" /\ gate_result.decision \in PassDecisions

\* C20: when a gate took a pass-class decision and has returned, every
\* child of the gate has been executed exactly once, and in sibling order.
C20_PassedGateRunsAllChildren ==
    GatePassed =>
       LET g == gate_result.gate_id
       IN (\E k \in RowsOf(g) : node_executions[k].status = "completed")
             => /\ \A c \in ChildrenOf(g) : Cardinality(RowsOf(c)) = 1
                /\ \A c, d \in ChildrenOf(g) :
                      c < d => \A i \in RowsOf(c) : \A j \in RowsOf(d) : i < j

\* =========================================================================
\* agentic-flow-builder/scripts: flow_orchestrator.py with database.py and
\* business_rules_engine.py
\* =========================================================================

\* nodes.name of the node of each id.
NodeNames == <<"n1", "n2", "n3", "n4", "n5", "n6">>
NodeName(node_id) == NodeNames[node_id]

\* The working-memory key f"node_{node_id}_result" of the node of each id.
ResultKeys == <<"node_1_result", "node_2_result", "node_3_result",
                "node_4_result", "node_5_result", "node_6_result">>
\* A slip in the key: one key for the results of all nodes.
ResultKey_Shared(node_id) == ResultKeys[1]

ResultKey(node_id) == ResultKeys[node_id]

\* get_child_nodes: SELECT * FROM nodes WHERE parent_id = ? ORDER BY
\* position ASC, as node ids.  The parentless nodes of get_flow_tree (ORDER
\* BY parent_id, position) are the children of NoParent.
RECURSIVE SortByPosition(_)
SortByPosition(S) ==
    IF S = {} THEN <<>>
    ELSE LET m == CHOOSE x \in S :
                     \A y \in S : nodes[x].position <= nodes[y].position
         IN <<m>> \o SortByPosition(S \ {m})

AfbGetChildNodes(parent_id) ==
    SortByPosition({i \in DOMAIN nodes : nodes[i].parent_id = parent_id})

\* get_rules_for_flow(flow_id, rule_type): SELECT * FROM business_rules
\* WHERE flow_id = ? AND rule_type = ? AND active = 1 ORDER BY priority
\* DESC; every order the query may return.
GetRulesForFlow(table, rule_type) ==
    LET sel == {i \in DOMAIN table :
                   table[i].rule_type = rule_type /\ table[i].active}
        n == Cardinality(sel)
        orders == {p \in [1..n -> sel] :
                     /\ \A a, b \in 1..n : a # b => p[a] # p[b]
                     /\ \A a, b \in 1..n :
                          a < b => table[p[a]].priority >= table[p[b]].priority}
    IN {[k \in 1..n |-> table[p[k]]] : p \in orders}

\* What self.evaluator.evaluate(condition, context) does for one rule: it
\* returns True, returns False, or raises.
RuleOutcomes == {"pass", "fail", "error"}

\* BusinessRulesEngine.evaluate_rule: the RuleEvaluation.
AfbEvaluateRule(rule, outcome) ==
    [rule_id |-> rule.rule_id, status |-> outcome, result |-> (outcome = "pass"),
     reason |-> IF outcome = "error" THEN "Rule evaluation error"
                ELSE IF outcome = "pass" THEN "passed" ELSE "failed"]

\* record_gate_evaluation: the gate_evaluations row of one RuleEvaluation.
GateEvaluationRow(execution_id, node_id, evaluation) ==
    [execution_id |-> execution_id, node_id |-> node_id,
     rule_id |-> evaluation.rule_id,
     status |-> IF evaluation.result THEN "pass" ELSE "fail",
     reason |-> evaluation.reason]

\* FlowDatabase.audit_log: the row it inserts.
AfbAuditRow(execution_id, node_id, event_type, event_data) ==
    [execution_id |-> execution_id, node_id |-> node_id,
     event_type |-> event_type, event_data |-> event_data]

\* record_gate_evaluation: the audit_log row of one RuleEvaluation.
GateEvaluationAudit(execution_id, node_id, evaluation) ==
    AfbAuditRow(execution_id, node_id, "gate_evaluation",
                [rule_id |-> evaluation.rule_id,
                 status |-> IF evaluation.result THEN "pass" ELSE "fail",
                 reason |-> evaluation.reason])

\* A slip in the schema: UNIQUE(key), so that the replace crosses executions.
StoreWorkingMemory_AnyExecution(table, execution_id, node_id, key, value) ==
    {r \in table : r.key # key}
       \cup {[execution_id |-> execution_id, node_id |-> node_id,
              key |-> key, value |-> value]}

\* store_working_memory: INSERT OR REPLACE under UNIQUE(execution_id, key).
StoreWorkingMemory(table, execution_id, node_id, key, value) ==
    {r \in table : ~(r.execution_id = execution_id /\ r.key = key)}
       \cup {[execution_id |-> execution_id, node_id |-> node_id,
              key |-> key, value |-> value]}

\* retrieve_working_memory(execution_id, key): the rows the SELECT matches,
\* of which fetchone returns one (None if there is none).
RetrieveWorkingMemory(table, execution_id, key) ==
    {r \in table : r.execution_id = execution_id /\ r.key = key}


\* A loop of store_working_memory over the keys (a sequence) of data.
RECURSIVE StoreAllWorkingMemory(_, _, _, _, _)
StoreAllWorkingMemory(table, execution_id, node_id, keys, data) ==
    IF keys = <<>> THEN table
    ELSE StoreAllWorkingMemory(
            StoreWorkingMemory(table, execution_id, node_id, Head(keys),
                               data[Head(keys)]),
            execution_id, node_id, Tail(keys), data)

\* NodeExecutionResult(node_id, status, output_data, error)
Result(node_id, status, output_data, error) ==
    [node_id |-> node_id, status |-> status, output_data |-> output_data,
     error |-> error]

\* What asyncio.gather(..., return_exceptions=True) keeps of a child that
\* raised: the exception, which is no NodeExecutionResult.
ExceptionResult(node_id, error) ==
    [node_id |-> node_id, status |-> "exception", output_data |-> <<>>,
     error |-> error]

\* [r.output_data for r in results]
OutputsOf(results) == [k \in DOMAIN results |-> results[k].output_data]

\* A slip in "Aggregate results": the results are kept up to the first
\* child that did not complete.
RECURSIVE SuccessfulResults_UntilFailure(_)
SuccessfulResults_UntilFailure(results) ==
    IF results = <<>> \/ Head(results).status # "completed" THEN <<>>
    ELSE <<Head(results)>> \o SuccessfulResults_UntilFailure(Tail(results))

\* The results that are a NodeExecutionResult with status COMPLETED.
SuccessfulResults(results) ==
    SelectSeq(results, LAMBDA r : r.status = "completed")

\* await self.execute_node(execution_id, node_id, input_data)
AfbCall(node_id, input_data) ==
    [op |-> "call", arg |-> [node_id |-> node_id, input_data |-> input_data]]

\* agent_registry.assign_agent: the new row of agent_assignments, and the
\* agent's status busy.
AssignAgent(table, execution_id, node_id, agent_id) ==
    Append(table, [execution_id |-> execution_id, node_id |-> node_id,
                   agent_id |-> agent_id, completed |-> FALSE,
                   success |-> None, performance_score |-> None])

AssignAgentStatus(table, agent_id) ==
    [i \in DOMAIN table |->
       IF table[i].agent_id = agent_id
       THEN [table[i] EXCEPT !.status = "busy"] ELSE table[i]]

\* agent_registry.complete_assignment: completed_at, success and
\* performance_score of the assignment's row, and the status available of
\* the row's agent.  assignment_id is the row's place in the table.
CompleteAssignment(table, assignment_id, success, performance_score) ==
    [table EXCEPT ![assignment_id] =
       [execution_id |-> @.execution_id, node_id |-> @.node_id,
        agent_id |-> @.agent_id, completed |-> TRUE,
        success |-> success, performance_score |-> performance_score]]

\* A complete_assignment that leaves the agent's status as it is.
CompleteAssignmentStatus_Kept(table, assignments, assignment_id) == table

CompleteAssignmentStatus(table, assignments, assignment_id) ==
    [i \in DOMAIN table |->
       IF assignment_id \in DOMAIN assignments
          /\ table[i].agent_id = assignments[assignment_id].agent_id
       THEN [table[i] EXCEPT !.status = "available"] ELSE table[i]]

\* What _invoke_agent does: the external agent returns its output, or the
\* call raises (the except branch of _execute_agent_node).
AgentOutcomes == {"ok", "raise"}

\* _invoke_agent's output_data of an agent of type general working on the
\* node's goal; confidence 0.9 in hundredths.
InvokeAgentOutput(node_id) ==
    [goal |-> NodeName(node_id), agent_used |-> "claude-sonnet",
     result |-> "Placeholder result", confidence |-> 90]

\* The longest task_assignments list an orchestrator's output carries here.
MaxAssignments == 2

\* The task_assignments an agent may answer with: none unless the node is
\* the orchestrator (first child) of an orchestrator_workers node, the only
\* place that reads the key; there, every list of one to MaxAssignments
\* assignments, each naming one of the workers or a name no worker has.
TaskAssignmentLists(node_id) ==
    LET parent == nodes[node_id].parent_id
        children == IF parent = 0 THEN <<>> ELSE AfbGetChildNodes(parent)
    IN IF parent \in PatternNodes("orchestrator_workers") /\ children[1] = node_id
       THEN LET names == {NodeName(children[j]) : j \in 2..Len(children)}
                            \cup {"nobody"}
                assignment == {[worker |-> w, input |-> [task |-> "subtask"]] :
                                  w \in names}
            IN UNION {[1..m -> assignment] : m \in 1..MaxAssignments}
       ELSE {}

\* Every output_data _invoke_agent may come back with once it calls an
\* actual agent: the placeholder's fields, with or without task_assignments.
InvokeAgentOutputs(node_id) ==
    {InvokeAgentOutput(node_id)}
       \cup {[goal |-> NodeName(node_id), agent_used |-> "claude-sonnet",
              result |-> "Placeholder result", confidence |-> 90,
              task_assignments |-> a] : a \in TaskAssignmentLists(node_id)}

\* The valid values of WorkflowPattern.
WorkflowPatterns ==
    {"prompt_chaining", "routing", "parallelization", "orchestrator_workers",
     "evaluator_optimizer"}

\* config.get('max_iterations', 3)
DefaultMaxIterations == 3
\* config.get('quality_threshold', 0.8), in hundredths
DefaultQualityThreshold == 80

\* A frame of execute_node: the node, the index of its node_executions row,
\* its input_data, and the state of its handler: the phase it is in, how
\* many children (or assignments) its loop has consumed, the results it
\* collected, the input it gives the next child, and the handler's locals.
AfbFrame(node_id, row, input_data, phase, data) ==
    [node |-> node_id, row |-> row, input |-> input_data, phase |-> phase,
     idx |-> 0, results |-> <<>>, child_input |-> input_data, data |-> data]

\* _execute_orchestrator_workers, "Find worker by name": the index of the
\* first assignment from k on that names one of the workers, 0 if none.
RECURSIVE NextAssignment(_, _, _)
NextAssignment(assignments, k, workers) ==
    IF k > Len(assignments) THEN 0
    ELSE IF \E w \in Range(workers) : NodeName(w) = assignments[k].worker
    THEN k
    ELSE NextAssignment(assignments, k + 1, workers)

\* The first worker (in child order) of the given name.
WorkerNamed(name, workers) ==
    workers[CHOOSE j \in DOMAIN workers :
               /\ NodeName(workers[j]) = name
               /\ \A i \in DOMAIN workers : NodeName(workers[i]) = name => j <= i]

\* The NodeExecutionResult a handler returns once its loop over the
\* children is over.
LoopResult(frame) ==
    LET successful == SuccessfulResults(frame.results)
    IN IF frame.phase = "children"
       THEN IF nodes[frame.node].node_type = "gate"
            THEN Result(frame.node, "completed",
                        [gate_passed |-> TRUE, evaluations |-> frame.data,
                         child_results |-> OutputsOf(frame.results)], None)
            ELSE IF nodes[frame.node].node_type = "agent"
            THEN Result(frame.node, "completed", frame.data, None)
            ELSE Result(frame.node, "completed",
                        [child_count |-> Len(frame.results)], None)
       ELSE IF frame.phase \in {"chain", "chain_break"}
       THEN Result(frame.node, "completed", frame.child_input, None)
       ELSE IF frame.phase = "routing"
       THEN Result(frame.node, "completed",
                   [routed_to |-> NodeName(frame.data),
                    result |-> frame.results[1].output_data], None)
       ELSE IF frame.phase = "parallel"
       THEN Result(frame.node,
                   IF successful # <<>> THEN "completed" ELSE "failed",
                   [parallel_results |-> OutputsOf(successful),
                    success_count |-> Len(successful),
                    total_count |-> Len(frame.results)], None)
       ELSE IF frame.phase = "workers"
       THEN Result(frame.node, "completed",
                   [orchestration |-> frame.results[1].output_data,
                    worker_results |-> OutputsOf(Tail(frame.results))], None)
       ELSE Result(frame.node, "completed",
                   [best_result |-> frame.data.best_result,
                    best_score |-> frame.data.best_score,
                    iterations |-> frame.data.iterations,
                    total_iterations |-> Len(frame.data.iterations)], None)

\* What the handler of the frame does next: it awaits execute_node on the
\* next child of its loop, or returns its result.  The frame of
\* execute_flow (phase "flow") loops over the root nodes.
AfbStep(frame) ==
    LET children == AfbGetChildNodes(frame.node)
    IN IF frame.phase = "flow"
       THEN IF frame.idx < Len(children)
            THEN AfbCall(children[frame.idx + 1], frame.input)
            ELSE [op |-> "return", arg |-> frame.results]
       ELSE IF frame.phase \in {"children", "chain", "parallel"}
       THEN IF frame.idx < Len(children)
            THEN AfbCall(children[frame.idx + 1], frame.child_input)
            ELSE Return(LoopResult(frame))
       ELSE IF frame.phase = "routing"
       THEN IF frame.idx = 0 THEN AfbCall(frame.data, frame.input)
                             ELSE Return(LoopResult(frame))
       ELSE IF frame.phase = "orchestrator"
       THEN AfbCall(children[1], frame.input)
       ELSE IF frame.phase = "workers"
       THEN LET k == NextAssignment(frame.data, frame.idx + 1, Tail(children))
            IN IF k = 0 THEN Return(LoopResult(frame))
               ELSE AfbCall(WorkerNamed(frame.data[k].worker, Tail(children)),
                            frame.data[k].input)
       ELSE IF frame.phase = "generate"
       THEN AfbCall(children[1], frame.input)
       ELSE IF frame.phase = "evaluate"
       THEN AfbCall(children[2], frame.data.generation)
       ELSE Return(LoopResult(frame))

\* The frame after the child it awaited came back with result r.
AfbAdvance(frame, r) ==
    LET children == AfbGetChildNodes(frame.node)
        results == Append(frame.results, r)
    IN IF frame.phase = "chain"
       THEN [frame EXCEPT
               !.idx = @ + 1, !.results = results,
               !.phase = IF r.status # "completed" THEN "chain_break" ELSE @,
               !.child_input = IF r.status # "completed" THEN @
                                                          ELSE r.output_data]
       ELSE IF frame.phase = "orchestrator"
       THEN [frame EXCEPT
               !.phase = "workers", !.idx = 0, !.results = results,
               !.data = Get(r.output_data, "task_assignments", <<>>)]
       ELSE IF frame.phase = "workers"
       THEN [frame EXCEPT
               !.idx = NextAssignment(frame.data, frame.idx + 1, Tail(children)),
               !.results = results]
       ELSE IF frame.phase = "generate"
       THEN [frame EXCEPT !.phase = "evaluate",
                          !.data.generation = r.output_data]
       ELSE IF frame.phase = "evaluate"
       THEN LET score == Get(r.output_data, "score", 0)
                iterations ==
                   Append(frame.data.iterations,
                          [iteration |-> Len(frame.data.iterations) + 1,
                           generation |-> frame.data.generation,
                           evaluation |-> r.output_data, score |-> score])
                better == score > frame.data.best_score
            IN [frame EXCEPT
                  !.phase = IF \/ score >= frame.data.threshold
                               \/ Len(iterations) >= frame.data.max_iterations
                            THEN "done" ELSE "generate",
                  !.data.iterations = iterations,
                  !.data.best_score = IF better THEN score ELSE @,
                  !.data.best_result = IF better THEN frame.data.generation ELSE @]
       ELSE [frame EXCEPT !.idx = @ + 1, !.results = results]

\* _execute_control_flow_node up to its pattern's first await: the frame of
\* the pattern, or the result it returns without running a child.  The
\* selected child of routing is found by _execute_routing itself.
ControlFlowFrame(node_id, row, input_data, config) ==
    LET pattern == Get(config, "pattern", "prompt_chaining")
        children == AfbGetChildNodes(node_id)
    IN IF pattern = "prompt_chaining"
       THEN AfbFrame(node_id, row, input_data, "chain", <<>>)
       ELSE IF pattern = "parallelization"
       THEN AfbFrame(node_id, row, input_data, "parallel", <<>>)
       ELSE IF pattern = "orchestrator_workers"
       THEN AfbFrame(node_id, row, input_data, "orchestrator", <<>>)
       ELSE LET max_iterations == Get(config, "max_iterations", DefaultMaxIterations)
            IN AfbFrame(node_id, row, input_data,
                        IF max_iterations > 0 THEN "generate" ELSE "done",
                        [max_iterations |-> max_iterations,
                         threshold |-> Get(config, "quality_threshold",
                                           DefaultQualityThreshold),
                         generation |-> <<>>, best_result |-> NoneOutput,
                         best_score |-> 0, iterations |-> <<>>])

\* The patterns that return FAILED before running a child:
\* orchestrator-workers without children, evaluator-optimizer with fewer
\* than two.
PatternFails(config, children) ==
    LET pattern == Get(config, "pattern", "prompt_chaining")
    IN IF pattern = "orchestrator_workers" /\ children = <<>>
       THEN "No orchestrator node found"
       ELSE IF pattern = "evaluator_optimizer" /\ Len(children) < 2
       THEN "Evaluator-optimizer requires generator and evaluator nodes"
       ELSE None

\* The evaluations of rules[1..n] under outcomes.
Evaluations(rules, outcomes, n) ==
    [k \in 1..n |-> AfbEvaluateRule(rules[k], outcomes[k])]

\* _execute_routing, "Evaluate routing rules": how many rules are
\* evaluated, the loop ending at the first that passes.
RoutingEvaluated(outcomes) ==
    IF \E k \in DOMAIN outcomes : outcomes[k] = "pass"
    THEN CHOOSE k \in DOMAIN outcomes :
            /\ outcomes[k] = "pass"
            /\ \A j \in DOMAIN outcomes : outcomes[j] = "pass" => k <= j
    ELSE Len(outcomes)

\* _execute_routing, "Find child by name": the first child of that name,
\* NoParent (no node) when there is none.
ChildNamed(name, children) ==
    IF \E j \in DOMAIN children : NodeName(children[j]) = name
    THEN WorkerNamed(name, children)
    ELSE NoParent

\* A slip in "Evaluate routing rules": selected_child starts as the first
\* child instead of None.
SelectedChild_DefaultsToFirst(rules, outcomes, children) ==
    LET n == RoutingEvaluated(outcomes)
    IN IF n > 0 /\ outcomes[n] = "pass"
       THEN ChildNamed(Get(rules[n].action, "route_to", None), children)
       ELSE IF children # <<>> THEN children[1] ELSE NoParent

\* _execute_routing, "Evaluate routing rules": selected_child, the child
\* named by the action of the first rule that passes, NoParent (None) when
\* no rule passes or no child has that name.
SelectedChild(rules, outcomes, children) ==
    LET n == RoutingEvaluated(outcomes)
    IN IF n > 0 /\ outcomes[n] = "pass"
       THEN ChildNamed(Get(rules[n].action, "route_to", None), children)
       ELSE NoParent

\* execute_flow up to its first await: create_execution, the status
\* in_progress, the root nodes, the working memory of the initial context.
AfbExecuteFlowBegin ==
    /\ ctl.op = "idle"
    /\ executions = <<>>
    /\ LET roots == AfbGetChildNodes(NoParent)
           frame == AfbFrame(NoParent, 0, InitialContext, "flow", <<>>)
       IN /\ executions' = <<[execution_id |-> ExecutionId,
                              status |-> "in_progress", error |-> None]>>
          /\ audit_log' = audit_log \o
                <<AfbAuditRow(ExecutionId, NoParent, "execution_start",
                              [context |-> InitialContext]),
                  AfbAuditRow(ExecutionId, NoParent, "execution_status_change",
                              [new_status |-> "in_progress", error |-> None])>>
          /\ stack' = <<frame>>
          /\ IF roots = <<>>
             THEN /\ ctl' = Raise("No root node found")
                  /\ UNCHANGED working_memory
             ELSE /\ ctl' = AfbStep(frame)
                  /\ working_memory' =
                        StoreAllWorkingMemory(working_memory, ExecutionId,
                           roots[1], InitialContextKeys, InitialContext)
    /\ UNCHANGED <<business_rules, gate_evaluations, gateVars, nodes,
                   node_executions, agent_assignments, agents>>

\* execute_node from its start to the first await of its handler, or to the
\* handler's return or raise when it awaits nothing: create_node_execution,
\* then _execute_gate_node, _execute_control_flow_node, _execute_agent_node
\* or _execute_children.
AfbExecuteNodeBegin ==
    /\ ctl.op = "call"
    /\ LET node_id == ctl.arg.node_id
           input_data == ctl.arg.input_data
           node == nodes[node_id]
           config == node.config
           children == AfbGetChildNodes(node_id)
           row == Len(node_executions) + 1
           started == AfbAuditRow(ExecutionId, node_id, "node_execution_start",
                                  [input_data |-> input_data])
       IN /\ node_executions' = Append(node_executions,
                [execution_id |-> ExecutionId, node_id |-> node_id,
                 status |-> "in_progress", input_data |-> input_data,
                 output_data |-> NoneOutput, error |-> None])
          /\ IF node.node_type = "gate"
             THEN \E rules \in GetRulesForFlow(business_rules, "gate") :
                  \E outcomes \in [1..Len(rules) -> RuleOutcomes] :
                     LET evaluations == Evaluations(rules, outcomes, Len(rules))
                         passed == \A k \in DOMAIN evaluations :
                                      evaluations[k].status = "pass"
                         summary == [k \in DOMAIN evaluations |->
                                       [rule_id |-> evaluations[k].rule_id,
                                        status |-> evaluations[k].status,
                                        reason |-> evaluations[k].reason]]
                         frame == AfbFrame(node_id, row, input_data, "children",
                                           summary)
                     IN /\ gate_evaluations' = gate_evaluations \o
                              [k \in DOMAIN evaluations |->
                                 GateEvaluationRow(ExecutionId, node_id, evaluations[k])]
                        /\ audit_log' = audit_log \o <<started>> \o
                              [k \in DOMAIN evaluations |->
                                 GateEvaluationAudit(ExecutionId, node_id, evaluations[k])]
                        /\ stack' = Append(stack, frame)
                        /\ ctl' = IF passed THEN AfbStep(frame)
                                  ELSE Return(Result(node_id, "skipped",
                                         [gate_passed |-> FALSE,
                                          evaluations |-> summary], None))
                        /\ UNCHANGED <<working_memory, agent_assignments, agents>>
             ELSE IF node.node_type = "control_flow"
             THEN IF Get(config, "pattern", "prompt_chaining") \notin WorkflowPatterns
                  THEN /\ ctl' = Raise("not a valid WorkflowPattern")
                       /\ stack' = Append(stack,
                             AfbFrame(node_id, row, input_data, "done", <<>>))
                       /\ audit_log' = Append(audit_log, started)
                       /\ UNCHANGED <<gate_evaluations, working_memory,
                                      agent_assignments, agents>>
                  ELSE IF Get(config, "pattern", "prompt_chaining") = "routing"
                  THEN \E rules \in GetRulesForFlow(business_rules, "routing") :
                       \E outcomes \in [1..Len(rules) -> RuleOutcomes] :
                          LET n == RoutingEvaluated(outcomes)
                              evaluations == Evaluations(rules, outcomes, n)
                              selected_child == SelectedChild(rules, outcomes, children)
                              frame == AfbFrame(node_id, row, input_data, "routing",
                                                selected_child)
                          IN /\ gate_evaluations' = gate_evaluations \o
                                   [k \in DOMAIN evaluations |->
                                      GateEvaluationRow(ExecutionId, node_id,
                                                        evaluations[k])]
                             /\ audit_log' = audit_log \o <<started>> \o
                                   [k \in DOMAIN evaluations |->
                                      GateEvaluationAudit(ExecutionId, node_id,
                                                          evaluations[k])]
                             /\ stack' = Append(stack, frame)
                             /\ ctl' = IF selected_child # NoParent
                                       THEN AfbStep(frame)
                                       ELSE Return(Result(node_id, "failed", <<>>,
                                                          "No routing rule matched"))
                             /\ UNCHANGED <<working_memory, agent_assignments, agents>>
                  ELSE LET frame == ControlFlowFrame(node_id, row, input_data, config)
                           failure == PatternFails(config, children)
                       IN /\ stack' = Append(stack, frame)
                          /\ ctl' = IF failure # None
                                    THEN Return(Result(node_id, "failed", <<>>, failure))
                                    ELSE AfbStep(frame)
                          /\ audit_log' = Append(audit_log, started)
                          /\ UNCHANGED <<gate_evaluations, working_memory,
                                         agent_assignments, agents>>
             ELSE IF node.node_type = "agent"
             THEN IF agents = <<>>
                  THEN /\ ctl' = Raise("No agents available for task execution")
                       /\ stack' = Append(stack,
                             AfbFrame(node_id, row, input_data, "done", <<>>))
                       /\ audit_log' = Append(audit_log, started)
                       /\ UNCHANGED <<gate_evaluations, working_memory,
                                      agent_assignments, agents>>
                  ELSE \E outcome \in AgentOutcomes :
                       \E output_data \in IF outcome = "ok"
                                          THEN InvokeAgentOutputs(node_id)
                                          ELSE {InvokeAgentOutput(node_id)} :
                          LET frame == [AfbFrame(node_id, row, input_data,
                                                 "children", output_data)
                                           EXCEPT !.child_input = output_data]
                              selected_agent == agents[1]
                              assigned == AssignAgent(agent_assignments, ExecutionId,
                                             node_id, selected_agent.agent_id)
                              assignment_id == Len(assigned)
                              completed ==
                                 CompleteAssignment(assigned, assignment_id,
                                    outcome = "ok",
                                    IF outcome = "ok" THEN output_data.confidence
                                                      ELSE None)
                          IN /\ audit_log' = audit_log \o
                                   <<started,
                                     AfbAuditRow(ExecutionId, node_id, "agent_selected",
                                                 [agent_name |-> selected_agent.agent_id])>>
                             /\ agent_assignments' = completed
                             /\ agents' =
                                   CompleteAssignmentStatus(
                                      AssignAgentStatus(agents, selected_agent.agent_id),
                                      completed, assignment_id)
                             /\ stack' = Append(stack, frame)
                             /\ IF outcome = "ok"
                                THEN /\ working_memory' =
                                           StoreWorkingMemory(working_memory,
                                              ExecutionId, node_id,
                                              ResultKey(node_id), output_data)
                                     /\ ctl' = AfbStep(frame)
                                ELSE /\ ctl' = Raise("agent invocation failed")
                                     /\ UNCHANGED working_memory
                             /\ UNCHANGED gate_evaluations
             ELSE LET frame == AfbFrame(node_id, row, input_data, "children", <<>>)
                  IN /\ stack' = Append(stack, frame)
                     /\ ctl' = AfbStep(frame)
                     /\ audit_log' = Append(audit_log, started)
                     /\ UNCHANGED <<gate_evaluations, working_memory,
                                    agent_assignments, agents>>
    /\ UNCHANGED <<business_rules, gateVars, nodes, executions>>

\* A slip in execute_node: the result goes to the caller without
\* update_node_execution.
AfbExecuteNodeReturned_LeavesRow ==
    /\ ctl.op = "return"
    /\ Len(stack) > 1
    /\ LET result == ctl.arg
           callers == SubSeq(stack, 1, Len(stack) - 1)
           caller == AfbAdvance(callers[Len(callers)], result)
       IN /\ stack' = [callers EXCEPT ![Len(callers)] = caller]
          /\ ctl' = AfbStep(caller)
    /\ UNCHANGED <<dbVars, gateVars, nodes, executions, working_memory,
                   agent_assignments, agents, node_executions>>

\* execute_node after its handler returned result: update_node_execution
\* with the result's status, and the result goes to the caller, whose
\* handler goes on.
AfbExecuteNodeReturned ==
    /\ ctl.op = "return"
    /\ Len(stack) > 1
    /\ LET frame == stack[Len(stack)]
           result == ctl.arg
           callers == SubSeq(stack, 1, Len(stack) - 1)
           caller == AfbAdvance(callers[Len(callers)], result)
       IN /\ node_executions' =
                [node_executions EXCEPT ![frame.row].status = result.status,
                                        ![frame.row].output_data = result.output_data,
                                        ![frame.row].error = result.error]
          /\ stack' = [callers EXCEPT ![Len(callers)] = caller]
          /\ ctl' = AfbStep(caller)
    /\ UNCHANGED <<dbVars, gateVars, nodes, executions, working_memory,
                   agent_assignments, agents>>

\* A slip in execute_node's except branch: the exception goes to the caller
\* without update_node_execution.
AfbExecuteNodeRaised_LeavesRow ==
    /\ ctl.op = "raise"
    /\ Len(stack) > 1
    /\ LET frame == stack[Len(stack)]
           callers == SubSeq(stack, 1, Len(stack) - 1)
           caller == callers[Len(callers)]
           joined == AfbAdvance(caller, ExceptionResult(frame.node, ctl.arg))
       IN IF caller.phase = "parallel"
          THEN /\ stack' = [callers EXCEPT ![Len(callers)] = joined]
               /\ ctl' = AfbStep(joined)
          ELSE /\ stack' = callers
               /\ UNCHANGED ctl
    /\ UNCHANGED <<dbVars, gateVars, nodes, executions, working_memory,
                   agent_assignments, agents, node_executions>>

\* execute_node after its handler raised: update_node_execution with the
\* status failed, and the exception goes to the caller.  Only the gather of
\* _execute_parallelization keeps it (return_exceptions=True) and goes on;
\* every other handler lets it pass.
AfbExecuteNodeRaised ==
    /\ ctl.op = "raise"
    /\ Len(stack) > 1
    /\ LET frame == stack[Len(stack)]
           callers == SubSeq(stack, 1, Len(stack) - 1)
           caller == callers[Len(callers)]
           joined == AfbAdvance(caller, ExceptionResult(frame.node, ctl.arg))
       IN /\ node_executions' =
                [node_executions EXCEPT ![frame.row].status = "failed",
                                        ![frame.row].output_data = <<>>,
                                        ![frame.row].error = ctl.arg]
          /\ IF caller.phase = "parallel"
             THEN /\ stack' = [callers EXCEPT ![Len(callers)] = joined]
                  /\ ctl' = AfbStep(joined)
             ELSE /\ stack' = callers
                  /\ UNCHANGED ctl
    /\ UNCHANGED <<dbVars, gateVars, nodes, executions, working_memory,
                   agent_assignments, agents>>

\* A slip in "Determine overall status": the statement after the status
\* update raises inside the try, so that the except branch runs as well.
AfbExecuteFlowReturned_ThenRaises ==
    /\ ctl.op = "return"
    /\ Len(stack) = 1
    /\ LET results == ctl.arg
           status == IF \A k \in DOMAIN results : results[k].status = "completed"
                     THEN "completed" ELSE "failed"
           error == IF status = "completed" THEN None
                                            ELSE "One or more nodes failed"
       IN /\ executions' = [executions EXCEPT ![1].status = status,
                                              ![1].error = error]
          /\ audit_log' = Append(audit_log,
                AfbAuditRow(ExecutionId, NoParent, "execution_status_change",
                            [new_status |-> status, error |-> error]))
    /\ ctl' = Raise("error after the status update")
    /\ UNCHANGED <<business_rules, gate_evaluations, gateVars, nodes,
                   node_executions, working_memory, agent_assignments, agents, stack>>

\* execute_flow after the loop over the root nodes: "Determine overall
\* status".
AfbExecuteFlowReturned ==
    /\ ctl.op = "return"
    /\ Len(stack) = 1
    /\ LET results == ctl.arg
           status == IF \A k \in DOMAIN results : results[k].status = "completed"
                     THEN "completed" ELSE "failed"
           error == IF status = "completed" THEN None
                                            ELSE "One or more nodes failed"
       IN /\ executions' = [executions EXCEPT ![1].status = status,
                                              ![1].error = error]
          /\ audit_log' = Append(audit_log,
                AfbAuditRow(ExecutionId, NoParent, "execution_status_change",
                            [new_status |-> status, error |-> error]))
    /\ stack' = <<>>
    /\ ctl' = [op |-> "done", arg |-> None]
    /\ UNCHANGED <<business_rules, gate_evaluations, gateVars, nodes,
                   node_executions, working_memory, agent_assignments, agents>>

\* An "except Exception" that raises again without the status update.
AfbExecuteFlowRaised_KeepsStatus ==
    /\ ctl.op = "raise"
    /\ Len(stack) = 1
    /\ stack' = <<>>
    /\ ctl' = [op |-> "done", arg |-> None]
    /\ UNCHANGED <<dbVars, gateVars, nodes, executions, node_executions,
                   working_memory, agent_assignments, agents>>

\* execute_flow's "except Exception": the status failed with the error,
\* then the exception leaves execute_flow.
AfbExecuteFlowRaised ==
    /\ ctl.op = "raise"
    /\ Len(stack) = 1
    /\ executions' = [executions EXCEPT ![1].status = "failed",
                                        ![1].error = ctl.arg]
    /\ audit_log' = Append(audit_log,
          AfbAuditRow(ExecutionId, NoParent, "execution_status_change",
                      [new_status |-> "failed", error |-> ctl.arg]))
    /\ stack' = <<>>
    /\ ctl' = [op |-> "done", arg |-> None]
    /\ UNCHANGED <<business_rules, gate_evaluations, gateVars, nodes,
                   node_executions, working_memory, agent_assignments, agents>>

\* ------------------------------------------------ the flows that are run
\* nodes.config of the control-flow nodes of a flow: the five patterns
\* (prompt chaining as the default of a missing key) and a value that is
\* no WorkflowPattern.
AfbControlFlowConfigs ==
    { <<>>,
      [pattern |-> "routing"],
      [pattern |-> "parallelization"],
      [pattern |-> "orchestrator_workers"],
      [pattern |-> "evaluator_optimizer"],
      [pattern |-> "sequential"] }

\* The business_rules table of a flow: no rule; a gate rule and a routing
\* rule that routes to the node named n3; or two routing rules, the one of
\* the lower priority created first.
AfbRuleTables ==
    { <<>>,
      <<[rule_id |-> 1, rule_type |-> "gate", priority |-> 100, active |-> TRUE,
         action |-> <<>>],
        [rule_id |-> 2, rule_type |-> "routing", priority |-> 100, active |-> TRUE,
         action |-> [route_to |-> "n3"]]>>,
      <<[rule_id |-> 1, rule_type |-> "routing", priority |-> 50, active |-> TRUE,
         action |-> [route_to |-> "n4"]],
        [rule_id |-> 2, rule_type |-> "routing", priority |-> 100, active |-> TRUE,
         action |-> [route_to |-> "n3"]]>> }

\* The nodes table of a flow: create_node for each node, positions in
\* creation order.
AfbFlowNodes(n, parent, type, cf_config) ==
    [i \in 1..n |->
        [node_id |-> i, parent_id |-> parent[i], name |-> NodeName(i),
         position |-> i,
         node_type |-> IF i = 1 THEN "root" ELSE type[i],
         config |-> IF i > 1 /\ type[i] = "control_flow" THEN cf_config ELSE <<>>]]

\* Node i of the table lies below a control-flow node.
RECURSIVE BelowControlFlow(_, _)
BelowControlFlow(table, i) ==
    LET p == table[i].parent_id
    IN IF p = NoParent THEN FALSE
       ELSE table[p].node_type = "control_flow" \/ BelowControlFlow(table, p)

\* asyncio.gather starts the children of a parallelization node as tasks.
\* No handler suspends except in a gather of its own, so with no
\* parallelization node below another each task runs to its end in turn,
\* in child order: these are the flows that are run.
NoNestedGather(table) ==
    \A i \in DOMAIN table :
       (/\ table[i].node_type = "control_flow"
        /\ Get(table[i].config, "pattern", "prompt_chaining") = "parallelization")
          => ~BelowControlFlow(table, i)

\* Table agents after _load_default_agents, as far as the orchestrator
\* reads it: the agent it selects, with the status column's default.
DefaultAgents == <<[agent_id |-> "claude-sonnet", status |-> "available"]>>

InitAfbWith(registered) ==
    /\ \E n \in 0..MaxNodes :
       \E parent \in TreeShapes(n) :
       \E type \in [1..n -> {"agent", "gate", "control_flow"}] :
       \E cf_config \in AfbControlFlowConfigs :
          /\ nodes = AfbFlowNodes(n, parent, type, cf_config)
          /\ NoNestedGather(nodes)
    /\ business_rules \in AfbRuleTables
    /\ gate_config = <<>>
    /\ call_execution_id = ExecutionId
    /\ gate_evaluations = <<>>
    /\ audit_log = <<>>
    /\ gate_pc = "idle"
    /\ fetched_rules = <<>>
    /\ gate_result = None
    /\ executions = <<>>
    /\ node_executions = <<>>
    /\ working_memory = {}
    /\ agent_assignments = <<>>
    /\ agents = registered
    /\ stack = <<>>
    /\ ctl = [op |-> "idle", arg |-> None]

InitAfb == InitAfbWith(DefaultAgents)

NextAfb ==
    \/ AfbExecuteFlowBegin
    \/ AfbExecuteNodeBegin
    \/ AfbExecuteNodeReturned
    \/ AfbExecuteNodeRaised
    \/ AfbExecuteFlowReturned
    \/ AfbExecuteFlowRaised

SpecAfb == InitAfb /\ [][NextAfb]_vars

\* The same flows with at least one agent node, on a registry in any
\* state: no agent registered, or the agent the orchestrator selects in a
\* status it may be in (find_best_agent reads the available agents, the
\* fallback list_agents()[0] reads them all).  The status disabled is read
\* and written like offline.
AgentStatuses == {"available", "busy", "offline"}
AgentTables ==
    { <<>> } \cup {<<[agent_id |-> "claude-sonnet", status |-> status]>> :
                     status \in AgentStatuses}
InitAgents ==
    /\ \E registered \in AgentTables : InitAfbWith(registered)
    /\ \E i \in DOMAIN nodes : nodes[i].node_type = "agent"
SpecAgents == InitAgents /\ [][NextAfb]_vars

\* ------------------------------------------ properties of execute_flow
\* The NodeExecution rows of the children of a root node.
RootChildRows ==
    {k \in DOMAIN node_executions :
        LET p == nodes[node_executions[k].node_id].parent_id
        IN p # NoParent /\ nodes[p].parent_id = NoParent}

\* C1: when execute_flow has finished and a child of the root ended in
\* status failed, the Execution is marked failed; it is marked completed
\* only when no child of the root failed.
C1_FailedChildFailsExecution ==
    (FlowEnded /\ \E k \in RootChildRows : node_executions[k].status = "failed")
       => executions[1].status = "failed"

\* ------------------------------------- properties of the workflow patterns
\* The children of a node whose NodeExecution ended completed, in child
\* order.
CompletedChildren(p) ==
    SelectSeq(AfbGetChildNodes(p),
              LAMBDA c : \E j \in RowsOf(c) : node_executions[j].status = "completed")

\* The output_data of the NodeExecution of a node that was executed once.
OutputOf(node_id) ==
    node_executions[CHOOSE j \in RowsOf(node_id) : TRUE].output_data

\* C12: the result of a parallelization node has total_count = the number
\* of its children, success_count = the number of children that completed,
\* and parallel_results = the outputs of the completed children, in child
\* order; a failed sibling removes none of them.
C12_ParallelResultCounts ==
    \A k \in DOMAIN node_executions :
       LET row == node_executions[k]
           p == row.node_id
           completed == CompletedChildren(p)
       IN (p \in PatternNodes("parallelization") /\ RowEnded(row))
             => /\ row.output_data.total_count = Len(AfbGetChildNodes(p))
                /\ row.output_data.success_count = Len(completed)
                /\ row.output_data.parallel_results =
                      [i \in 1..Len(completed) |-> OutputOf(completed[i])]

\* A parallelization node with children [A, B] has ended, B failed first
\* or last, and the result counts one success of two.
C12_Witness ==
    \E k \in DOMAIN node_executions :
       LET row == node_executions[k]
           p == row.node_id
       IN /\ p \in PatternNodes("parallelization")
          /\ RowEnded(row)
          /\ row.output_data.success_count = 1
          /\ row.output_data.total_count = 2
          /\ \E c \in ChildrenOf(p) : \E j \in RowsOf(c) :
                /\ node_executions[j].status = "failed"
                /\ \E d \in ChildrenOf(p) : d > c

\* C13: the result of an evaluator-optimizer node lists the iterations it
\* performed, in order; every iteration but the last scored below
\* quality_threshold, and the last reached it or was iteration
\* max_iterations; best_result is the generation of an iteration of the
\* highest score.
C13_EvaluatorOptimizerLoop ==
    \A k \in DOMAIN node_executions :
       LET row == node_executions[k]
           p == row.node_id
           out == row.output_data
           max_iterations == Get(nodes[p].config, "max_iterations",
                                 DefaultMaxIterations)
           threshold == Get(nodes[p].config, "quality_threshold",
                            DefaultQualityThreshold)
       IN (/\ p \in PatternNodes("evaluator_optimizer")
           /\ row.status = "completed")
             => LET n == Len(out.iterations)
                IN /\ n <= max_iterations
                   /\ out.total_iterations = n
                   /\ \A i \in 1..n : out.iterations[i].iteration = i
                   /\ \A i \in 1..(n - 1) : out.iterations[i].score < threshold
                   /\ n = max_iterations \/ out.iterations[n].score >= threshold
                   /\ \E i \in 1..n :
                         /\ out.best_result = out.iterations[i].generation
                         /\ \A j \in 1..n :
                               out.iterations[j].score <= out.iterations[i].score

\* The gate_evaluations rows that evaluate_rule wrote for a node, in the
\* order of the evaluations.
EvaluationsOf(node_id) ==
    SelectSeq(gate_evaluations, LAMBDA e : e.node_id = node_id)

\* A routing rule passed on the input of the routing node.
RoutingPassed(node_id) ==
    \E i \in DOMAIN EvaluationsOf(node_id) :
       EvaluationsOf(node_id)[i].status = "pass"

\* C14: a routing node none of whose routing rules passed executes none of
\* its children (no NodeExecution for any child), and its own NodeExecution
\* ends failed with the error "No routing rule matched".
C14_NoRouteFails ==
    \A k \in DOMAIN node_executions :
       LET row == node_executions[k]
           p == row.node_id
       IN (p \in PatternNodes("routing") /\ ~RoutingPassed(p))
             => /\ \A c \in ChildrenOf(p) : RowsOf(c) = {}
                /\ RowEnded(row) => /\ row.status = "failed"
                                    /\ row.error = "No routing rule matched"

\* A routing node with two children evaluated two rules, neither passed,
\* and the execution has ended.
C14_Witness ==
    /\ FlowEnded
    /\ \E p \in PatternNodes("routing") :
          /\ Cardinality(ChildrenOf(p)) = 2
          /\ Len(EvaluationsOf(p)) = 2
          /\ ~RoutingPassed(p)
          /\ \E k \in RowsOf(p) : node_executions[k].status = "failed"

\* The business_rules row of a rule_id.
RuleOf(rule_id) ==
    business_rules[CHOOSE i \in DOMAIN business_rules :
                      business_rules[i].rule_id = rule_id]

\* C15: a routing node evaluates its routing rules in descending priority
\* and stops at the first that passes; when a rule passed, exactly one
\* child is executed, once: the child named by the rule's route_to, and no
\* other child of the routing node.
C15_RoutesToFirstMatch ==
    \A p \in PatternNodes("routing") :
       LET evs == EvaluationsOf(p)
           n == Len(evs)
       IN /\ \A i \in 1..(n - 1) : evs[i].status # "pass"
          /\ \A i, j \in 1..n :
                i < j => RuleOf(evs[i].rule_id).priority
                            >= RuleOf(evs[j].rule_id).priority
          /\ (/\ RoutingPassed(p)
              /\ \E k \in RowsOf(p) : RowEnded(node_executions[k]))
                => \E c \in ChildrenOf(p) :
                      /\ NodeName(c) = RuleOf(evs[n].rule_id).action.route_to
                      /\ Cardinality(RowsOf(c)) = 1
                      /\ \A d \in ChildrenOf(p) \ {c} : RowsOf(d) = {}

\* The task assignments in the output of the orchestrator, the first child
\* of an orchestrator-workers node: none before the orchestrator returned.
TaskAssignments(orchestrator) ==
    IF \E j \in RowsOf(orchestrator) : node_executions[j].status = "completed"
    THEN Get(OutputOf(orchestrator), "task_assignments", <<>>)
    ELSE <<>>

\* C16: under an orchestrator-workers node a worker (a child after the
\* first) gets a NodeExecution only after the first child completed and
\* only if an assignment in the first child's output names it, and then
\* with the input of that assignment; once the node completed, every worker
\* that an assignment names has been executed.
C16_OnlyAssignedWorkersRun ==
    \A p \in PatternNodes("orchestrator_workers") :
       LET children == GetChildNodes(p)
       IN children # <<>> =>
          LET orchestrator == Head(children)
              assignments == TaskAssignments(orchestrator)
          IN /\ \A w \in Range(Tail(children)) : \A k \in RowsOf(w) :
                   /\ \E j \in RowsOf(orchestrator) :
                         j < k /\ node_executions[j].status = "completed"
                   /\ \E a \in DOMAIN assignments :
                         /\ assignments[a].worker = NodeName(w)
                         /\ "input_data" \in DOMAIN node_executions[k]
                               => node_executions[k].input_data = assignments[a].input
             /\ (\E k \in RowsOf(p) : node_executions[k].status = "completed")
                   => \A a \in DOMAIN assignments :
                         \A w \in Range(Tail(children)) :
                            assignments[a].worker = NodeName(w) => RowsOf(w) # {}

\* C17: when a worker of an orchestrator-workers node failed, the node
\* itself still ends completed, with its result, and every worker that an
\* assignment names has been executed: the failure stays in the worker's
\* branch.
C17_WorkerFailureIsolated ==
    \A p \in PatternNodes("orchestrator_workers") :
       LET children == GetChildNodes(p)
           workers == IF children = <<>> THEN {} ELSE Range(Tail(children))
           assignments == IF children = <<>> THEN <<>>
                          ELSE TaskAssignments(Head(children))
       IN \A k \in RowsOf(p) :
             (/\ RowEnded(node_executions[k])
              /\ \E w \in workers : \E j \in RowsOf(w) :
                    node_executions[j].status = "failed")
                => /\ node_executions[k].status = "completed"
                   /\ \A a \in DOMAIN assignments : \A w \in workers :
                         assignments[a].worker = NodeName(w) => RowsOf(w) # {}

\* ------------------------------------------- properties of the records
\* The terminal statuses of an Execution.
TerminalStatuses == {"completed", "failed"}

\* The audit rows of the terminal status changes that
\* update_execution_status wrote.
TerminalStatusWrites ==
    SelectSeq(audit_log,
              LAMBDA e : /\ e.event_type = "execution_status_change"
                         /\ e.event_data.new_status \in TerminalStatuses)

\* C21: the status of the Execution only moves forward, from pending or
\* in_progress to completed or failed; a terminal status is never changed
\* by a later step, and execute_flow writes exactly one terminal status.
C21_ExecutionStatusForward ==
    /\ [](/\ Len(TerminalStatusWrites) <= 1
          /\ FlowEnded => /\ Len(TerminalStatusWrites) = 1
                          /\ executions[1].status \in TerminalStatuses)
    /\ [][IF executions = <<>>
          THEN \/ executions' = <<>>
               \/ /\ Len(executions') = 1
                  /\ executions'[1].status \in {"pending", "in_progress"}
          ELSE /\ Len(executions') = 1
               /\ executions[1].status \in TerminalStatuses
                     => executions' = executions
               /\ executions'[1].status \in
                     {executions[1].status} \cup TerminalStatuses]_vars

\* execute_flow returned with the Execution completed after nodes ran.
C21_Witness ==
    /\ FlowEnded
    /\ executions[1].status = "completed"
    /\ Len(node_executions) >= 2

\* The errors of the FAILED results that a handler returns without raising.
ReturnedErrors ==
    {"No routing rule matched", "No orchestrator node found",
     "Evaluator-optimizer requires generator and evaluator nodes"}

\* The NodeExecution rows of the nodes whose execution raised: failed, with
\* the text of the exception as error.
RaisedRows ==
    {k \in DOMAIN node_executions :
        /\ node_executions[k].status = "failed"
        /\ node_executions[k].error \notin ReturnedErrors \cup {None}}

\* C22: when the handler of a node raises, execute_node sets the node's own
\* NodeExecution to failed in the step that passes the error to the caller,
\* and creates no NodeExecution in that step; no NodeExecution is created
\* later for a node whose execution raised.
C22_RaisedNodeFailsOnce ==
    /\ [][(ctl.op = "raise" /\ Len(stack) > 1)
            => /\ node_executions'[stack[Len(stack)].row].status = "failed"
               /\ Len(node_executions') = Len(node_executions)
               /\ Len(stack') < Len(stack)]_vars
    /\ [](\A k \in RaisedRows : \A j \in DOMAIN node_executions :
             j > k => node_executions[j].node_id # node_executions[k].node_id)

\* The first child of a parallelization node raised, a sibling ran after
\* it, and the execution has ended.
C22_Witness ==
    /\ FlowEnded
    /\ \E k \in RaisedRows :
          LET c == node_executions[k].node_id
          IN /\ nodes[c].parent_id \in PatternNodes("parallelization")
             /\ \E d \in ChildrenOf(nodes[c].parent_id) :
                   d > c /\ RowsOf(d) # {}

\* An audit_log row identifies the failure of a NodeExecution: it carries
\* the error, or it is a row of the node that tells of a failure.
AuditIdentifies(e, row) ==
    \/ "error" \in DOMAIN e.event_data /\ e.event_data.error = row.error
    \/ /\ e.node_id = row.node_id
       /\ e.event_type \notin {"node_execution_start", "agent_selected"}
       /\ "status" \in DOMAIN e.event_data => e.event_data.status = "fail"

\* C23: when the execution has ended, every failure has left an audit_log
\* row that identifies it: every node whose execution raised, a child of a
\* parallelization node included, and every gate_evaluations row of a rule
\* that did not pass.
C23_FailuresAudited ==
    FlowEnded =>
       /\ \A k \in RaisedRows : \E i \in DOMAIN audit_log :
             AuditIdentifies(audit_log[i], node_executions[k])
       /\ \A g \in DOMAIN gate_evaluations :
             gate_evaluations[g].status = "fail"
                => \E i \in DOMAIN audit_log :
                      /\ audit_log[i].event_type = "gate_evaluation"
                      /\ audit_log[i].node_id = gate_evaluations[g].node_id
                      /\ audit_log[i].event_data.rule_id = gate_evaluations[g].rule_id
                      /\ audit_log[i].event_data.status = "fail"

\* The terminal statuses of a NodeExecution.
NodeTerminalStatuses == {"completed", "failed", "skipped"}

\* C24: a NodeExecution is created in status in_progress; once its status
\* is completed, failed or skipped the record never changes again, and no
\* record is removed; when execute_flow has returned or raised, every
\* NodeExecution has a terminal status.
C24_NodeExecutionLifecycle ==
    /\ [][/\ Len(node_executions') >= Len(node_executions)
          /\ \A k \in DOMAIN node_executions' :
                IF k \in DOMAIN node_executions
                THEN /\ node_executions[k].status \in NodeTerminalStatuses
                           => node_executions'[k] = node_executions[k]
                     /\ node_executions'[k].status \in
                           {node_executions[k].status} \cup NodeTerminalStatuses
                ELSE node_executions'[k].status = "in_progress"]_vars
    /\ [](FlowEnded => \A k \in DOMAIN node_executions :
                          node_executions[k].status \in NodeTerminalStatuses)

\* The execution has ended with NodeExecutions in each of the terminal
\* statuses.
C24_Witness ==
    /\ FlowEnded
    /\ \A status \in NodeTerminalStatuses :
          \E k \in DOMAIN node_executions : node_executions[k].status = status

\* The generator and the evaluator of the evaluator-optimizer nodes: their
\* first two children.
LoopNodes ==
    {c \in DOMAIN nodes :
        /\ nodes[c].parent_id \in PatternNodes("evaluator_optimizer")
        /\ \E j \in {1, 2} :
              /\ j <= Len(AfbGetChildNodes(nodes[c].parent_id))
              /\ AfbGetChildNodes(nodes[c].parent_id)[j] = c}

\* C25: a node with more than one NodeExecution is the generator or the
\* evaluator of an evaluator-optimizer node (this orchestrator has no gate
\* recycle); under the other patterns every node has at most one
\* NodeExecution, whatever task_assignments the orchestrator child returns.
C25_ExecutedAtMostOnce ==
    \A c \in DOMAIN nodes : Cardinality(RowsOf(c)) > 1 => c \in LoopNodes

\* The control-flow nodes whose configured pattern is none of the five.
UnknownPatternNodes ==
    {p \in DOMAIN nodes :
        /\ nodes[p].node_type = "control_flow"
        /\ "pattern" \in DOMAIN nodes[p].config
        /\ nodes[p].config.pattern \notin WorkflowPatterns}

\* C26: a control-flow node whose pattern is none of the five completes,
\* every child of it executed once, and the node does not fail the
\* execution.
C26_UnknownPatternRunsChildren ==
    \A k \in DOMAIN node_executions :
       LET p == node_executions[k].node_id
       IN (p \in UnknownPatternNodes /\ RowEnded(node_executions[k]))
             => /\ node_executions[k].status = "completed"
                /\ \A c \in ChildrenOf(p) : Cardinality(RowsOf(c)) = 1

\* ------------------------------------------------ properties of the rules
\* The rule ids of rule_results, in the order of evaluation.
EvaluatedRules ==
    [k \in DOMAIN gate_result.rule_results |-> gate_result.rule_results[k].rule_id]

\* No rule is evaluated twice, every evaluated rule is an enabled rule of
\* the gate, and the priorities do not increase along the evaluation.
SelectedInOrder ==
    /\ \A k \in DOMAIN EvaluatedRules : EvaluatedRules[k] \in EnabledRules
    /\ \A j, k \in DOMAIN EvaluatedRules :
          j < k => /\ EvaluatedRules[j] # EvaluatedRules[k]
                   /\ business_rules[EvaluatedRules[j]].priority
                         >= business_rules[EvaluatedRules[k]].priority

ErroredResults ==
    {k \in DOMAIN gate_result.rule_results :
        gate_result.rule_results[k].reason = "Evaluation error"}

\* C28: a rule whose condition raised is a failed result with score 0 and
\* a reason, evaluate_gate returns, and the evaluation does not stop at
\* that rule: every rule fetched after it is evaluated too (as far as no
\* later rule ends the evaluation).
C28_ErrorKeepsEvaluating ==
    Returned =>
       \A k \in ErroredResults :
          /\ ~gate_result.rule_results[k].passed
          /\ gate_result.rule_results[k].score = 0
          /\ k = Len(gate_result.rule_results) => k = Len(fetched_rules)

\* ------------------------------------------------ properties of the score
\* The configured weight of the rule of result k.
WeightOf(k) ==
    Get(business_rules[gate_result.rule_results[k].rule_id].metadata,
        "weight", DefaultWeight)

\* The sum of weight_i over the results 1..k, and of weight_i * score_i
\* with score_i 100 for a rule that passed and 0 otherwise.
RECURSIVE SumOfWeights(_)
SumOfWeights(k) == IF k = 0 THEN 0 ELSE SumOfWeights(k - 1) + WeightOf(k)

RECURSIVE SumOfWeightedScores(_)
SumOfWeightedScores(k) ==
    IF k = 0 THEN 0
    ELSE SumOfWeightedScores(k - 1)
            + WeightOf(k) * (IF gate_result.rule_results[k].passed THEN 100 ELSE 0)

\* evaluate_gate ran all the rules of a gate that has some: no return of
\* the auto-kill branch.
RanAllRules ==
    /\ Returned
    /\ fetched_rules # <<>>
    /\ Len(gate_result.rule_results) = Len(fetched_rules)
    /\ ~SomeFailedWithFlag("auto_kill_if_fail")

\* C29: when evaluate_gate ran all rules, overall_score is the sum of
\* weight_i * score_i over the sum of weight_i; it lies between 0 and 100
\* and is 100 exactly when every rule passed.
C29_WeightedAverage ==
    RanAllRules =>
       LET s == gate_result.overall_score
           n == Len(gate_result.rule_results)
       IN /\ s.den > 0
          /\ s.num * SumOfWeights(n) = SumOfWeightedScores(n) * s.den
          /\ 0 <= s.num /\ s.num <= 100 * s.den
          /\ (s.num = 100 * s.den)
                <=> \A k \in 1..n : gate_result.rule_results[k].passed

\* Two rules of different weights, one passed and one failed: a score
\* strictly between 0 and 100.
C29_Witness ==
    /\ RanAllRules
    /\ Len(gate_result.rule_results) = 2
    /\ WeightOf(1) # WeightOf(2)
    /\ gate_result.rule_results[1].passed
    /\ ~gate_result.rule_results[2].passed

\* C30: a pass-class decision returned by evaluate_gate is one of the
\* decision options configured for the gate.
C30_PassDecisionIsAnOption ==
    (Returned /\ gate_result.decision \in PassDecisions) =>
       gate_result.decision \in ConfiguredOptions

\* =========================================================================
\* agentic-flow-builder/scripts/database.py: working memory on its own
\* =========================================================================

\* The executions, keys, nodes and values of the calls.
MemExecutions == {"exec_1", "exec_2"}
MemKeys == {"node_1_result", "node_2_result"}
MemNodes == {1, 2}
MemValues == {[result |-> "first"], [result |-> "second"]}

\* No call yet: the table is empty.
InitMem ==
    /\ working_memory = {}
    /\ ctl = [op |-> "idle", arg |-> None]
    /\ business_rules = <<>>
    /\ gate_config = <<>>
    /\ call_execution_id = None
    /\ gate_evaluations = <<>>
    /\ audit_log = <<>>
    /\ gate_pc = "idle"
    /\ fetched_rules = <<>>
    /\ gate_result = None
    /\ nodes = <<>>
    /\ executions = <<>>
    /\ node_executions = <<>>
    /\ agent_assignments = <<>>
    /\ agents = <<>>
    /\ stack = <<>>

\* db.store_working_memory(execution_id, node_id, key, value); ctl keeps
\* the arguments of the call.
StoreWorkingMemoryCall ==
    /\ \E execution_id \in MemExecutions, node_id \in MemNodes,
          key \in MemKeys, value \in MemValues :
          /\ working_memory' = StoreWorkingMemory(working_memory, execution_id,
                                                  node_id, key, value)
          /\ ctl' = [op |-> "store_working_memory",
                     arg |-> [execution_id |-> execution_id, node_id |-> node_id,
                              key |-> key, value |-> value]]
    /\ UNCHANGED <<dbVars, gateVars, nodes, executions, node_executions,
                   agent_assignments, agents, stack>>

NextMem == StoreWorkingMemoryCall

SpecMem == InitMem /\ [][NextMem]_vars

\* --------------------------------------- properties of the working memory
\* C31: after a write to (e, key) a read of (e, key) yields the value
\* written; a key of an execution never has more than one entry; and the
\* write leaves what a read yields for every other key and every other
\* execution as it was.  So a read yields the most recent write.
C31_LastWriteWins ==
    /\ [](ctl.op = "store_working_memory" =>
            {r.value : r \in RetrieveWorkingMemory(working_memory,
                                ctl.arg.execution_id, ctl.arg.key)}
               = {ctl.arg.value})
    /\ [](\A e \in MemExecutions, k \in MemKeys :
            Cardinality(RetrieveWorkingMemory(working_memory, e, k)) <= 1)
    /\ [][\A e \in MemExecutions, k \in MemKeys :
            (e # ctl'.arg.execution_id \/ k # ctl'.arg.key) =>
               RetrieveWorkingMemory(working_memory', e, k)
                  = RetrieveWorkingMemory(working_memory, e, k)]_vars

\* Both executions hold both keys, the key just written with different
\* values in the two executions.
C31_Witness ==
    /\ ctl.op = "store_working_memory"
    /\ Cardinality(working_memory) = 4
    /\ \E r \in working_memory :
          /\ r.key = ctl.arg.key
          /\ r.execution_id # ctl.arg.execution_id
          /\ r.value # ctl.arg.value

\* The children of node p that are agent nodes with a completed
\* NodeExecution.
CompletedAgents(p) ==
    {c \in ChildrenOf(p) :
        /\ nodes[c].node_type = "agent"
        /\ \E j \in RowsOf(c) : node_executions[j].status = "completed"}

\* C32: once a parallelization node has joined its children, the working
\* memory of the execution holds, for every child agent node that
\* completed, the output of that child under the child's own key, whether
\* or not a sibling failed.
C32_ParallelWritesKept ==
    \A k \in DOMAIN node_executions :
       LET p == node_executions[k].node_id
       IN (p \in PatternNodes("parallelization") /\ RowEnded(node_executions[k]))
             => \A c \in CompletedAgents(p) :
                   {r.value : r \in RetrieveWorkingMemory(working_memory,
                                       ExecutionId, ResultKey(c))}
                      = {node_executions[j].output_data : j \in RowsOf(c)}

\* A parallelization node has joined an agent that raised and a sibling
\* agent after it that completed.
C32_Witness ==
    \E k \in DOMAIN node_executions :
       LET p == node_executions[k].node_id
       IN /\ p \in PatternNodes("parallelization")
          /\ RowEnded(node_executions[k])
          /\ \E a \in CompletedAgents(p) : \E j \in RaisedRows :
                /\ nodes[node_executions[j].node_id].parent_id = p
                /\ node_executions[j].node_id < a

\* =========================================================================
\* agentic-flow-builder/scripts/business_rules_engine.py: the expressions
\* =========================================================================

\* Python values as they come out of json.loads, tagged with their type:
\* None, an int, a str, a list (items: a sequence) and a dict (items: a
\* function on its keys).
PyNone == [type |-> "NoneType"]
PyInt(n) == [type |-> "int", val |-> n]
PyStr(s) == [type |-> "str", val |-> s]
PyList(items) == [type |-> "list", items |-> items]
PyDict(items) == [type |-> "dict", items |-> items]

\* The strings of the values and their characters; the characters in the
\* order of their code points.
Strings == {"", "5", "7", "None", "abc"}
Chars(s) ==
    CASE s = "" -> <<>>
      [] s = "5" -> <<"5">>
      [] s = "7" -> <<"7">>
      [] s = "None" -> <<"N", "o", "n", "e">>
      [] s = "abc" -> <<"a", "b", "c">>
CodePoints == <<"0", "1", "2", "3", "4", "5", "6", "7", "8", "9",
                "N", "a", "b", "c", "e", "n", "o">>
CodePoint(c) == CHOOSE i \in DOMAIN CodePoints : CodePoints[i] = c
IsDigit(c) == CodePoint(c) <= 10

\* The outcome of a call that returns a bool or raises.
Bool(b) == IF b THEN "true" ELSE "false"
IsError(outcome) == outcome \notin {"true", "false"}

\* The first error among the outcomes, None if there is none.
FirstError(outcomes) ==
    IF \E i \in DOMAIN outcomes : IsError(outcomes[i])
    THEN outcomes[CHOOSE i \in DOMAIN outcomes :
                     /\ IsError(outcomes[i])
                     /\ \A j \in DOMAIN outcomes : IsError(outcomes[j]) => i <= j]
    ELSE None

\* int(s) of a str: the number its digits spell, or the ValueError.
RECURSIVE DigitsValue(_)
DigitsValue(cs) ==
    IF cs = <<>> THEN 0
    ELSE 10 * DigitsValue(SubSeq(cs, 1, Len(cs) - 1))
            + (CodePoint(cs[Len(cs)]) - 1)
ParseInt(s) ==
    IF Chars(s) # <<>> /\ \A i \in DOMAIN Chars(s) : IsDigit(Chars(s)[i])
    THEN PyInt(DigitsValue(Chars(s)))
    ELSE [type |-> "ValueError"]

\* str(v) of None, an int (of one digit) or a str.
ToStr(v) ==
    IF v.type = "NoneType" THEN PyStr("None")
    ELSE IF v.type = "int" THEN PyStr(CodePoints[v.val + 1])
    ELSE v

\* s < t on strs: lexicographic on the code points.
RECURSIVE CharsLess(_, _)
CharsLess(a, b) ==
    IF b = <<>> THEN FALSE
    ELSE IF a = <<>> THEN TRUE
    ELSE IF CodePoint(Head(a)) # CodePoint(Head(b))
    THEN CodePoint(Head(a)) < CodePoint(Head(b))
    ELSE CharsLess(Tail(a), Tail(b))

\* a.startswith(b) and b in a on the characters of two strs.
IsPrefix(b, a) == Len(b) <= Len(a) /\ SubSeq(a, 1, Len(b)) = b
IsSubstring(b, a) ==
    \E i \in 0..Len(a) : i + Len(b) <= Len(a) /\ SubSeq(a, i + 1, i + Len(b)) = b

\* _coerce_types(actual, expected): the pair it returns.
AfbCoerceTypes(actual, expected) ==
    IF actual.type = expected.type THEN <<actual, expected>>
    ELSE IF expected.type = "int" /\ actual.type = "str"
    THEN IF ParseInt(actual.val).type = "int"
         THEN <<ParseInt(actual.val), expected>>
         ELSE <<actual, expected>>
    ELSE IF expected.type = "str" THEN <<ToStr(actual), expected>>
    ELSE <<actual, expected>>

\* compare_fn(actual, expected) for the six COMPARISON_OPS: == and != are
\* defined on all values, the orderings on two ints or two strs and raise
\* TypeError otherwise.
AfbCompare(op, a, b) ==
    IF op = "==" THEN Bool(a = b)
    ELSE IF op = "!=" THEN Bool(a # b)
    ELSE IF a.type = "int" /\ b.type = "int"
    THEN Bool(CASE op = "<" -> a.val < b.val
                [] op = ">" -> a.val > b.val
                [] op = "<=" -> a.val <= b.val
                [] op = ">=" -> a.val >= b.val)
    ELSE IF a.type = "str" /\ b.type = "str"
    THEN Bool(CASE op = "<" -> CharsLess(Chars(a.val), Chars(b.val))
                [] op = ">" -> CharsLess(Chars(b.val), Chars(a.val))
                [] op = "<=" -> ~CharsLess(Chars(b.val), Chars(a.val))
                [] op = ">=" -> ~CharsLess(Chars(a.val), Chars(b.val)))
    ELSE "Comparison failed"

ComparisonOps == {"==", "!=", "<", ">", "<=", ">="}
NullOps == {"IS NULL", "IS NOT NULL"}

\* _get_field_value(field_path, context) for a path of one part: the
\* value under the key, None when the context has none.  A field_path that
\* is None has no split.
AfbGetFieldValue(field, context) ==
    IF field.type # "str" THEN [type |-> "AttributeError"]
    ELSE IF field.val \in DOMAIN context THEN context[field.val]
    ELSE PyNone

\* _evaluate_comparison(node, context): "true", "false", or the exception.
AfbEvaluateComparison(d, context) ==
    IF "value" \notin DOMAIN d THEN "KeyError"
    ELSE LET actual_value == AfbGetFieldValue(d.field, context)
             op == d.operator.val
         IN IF actual_value.type = "AttributeError" THEN "AttributeError"
            ELSE IF op = "IS NULL" THEN Bool(actual_value = PyNone)
            ELSE IF op = "IS NOT NULL" THEN Bool(actual_value # PyNone)
            ELSE IF op \notin ComparisonOps THEN "Unknown operator"
            ELSE LET coerced == AfbCoerceTypes(actual_value, d.value)
                 IN AfbCompare(op, coerced[1], coerced[2])

\* _evaluate_membership(node, context, in_set)
AfbEvaluateMembership(d, context, in_set) ==
    LET first == Get(d, "IN", PyNone)
        field == IF first.type = "str" /\ first.val # "" THEN first
                 ELSE Get(d, "NOT IN", PyNone)
        values == Get(d, "values", PyList(<<>>))
        actual_value == AfbGetFieldValue(field, context)
    IN IF actual_value.type = "AttributeError" THEN "AttributeError"
       ELSE IF values.type # "list" THEN "TypeError"
       ELSE Bool((actual_value \in Range(values.items)) = in_set)

\* _evaluate_pattern_match(node, context), for a pattern of plain
\* characters: re.match finds it at the start of str(value).
AfbEvaluatePatternMatch(d, context) ==
    IF d.MATCHES.type # "dict" THEN "TypeError"
    ELSE IF {"field", "pattern"} \ DOMAIN d.MATCHES.items # {} THEN "KeyError"
    ELSE LET value == AfbGetFieldValue(d.MATCHES.items.field, context)
         IN IF value.type = "AttributeError" THEN "AttributeError"
            ELSE Bool(IsPrefix(Chars(d.MATCHES.items.pattern.val),
                               Chars(ToStr(value).val)))

\* _evaluate_contains(node, context)
AfbEvaluateContains(d, context) ==
    IF d.CONTAINS.type # "dict" THEN "TypeError"
    ELSE IF {"field", "value"} \ DOMAIN d.CONTAINS.items # {} THEN "KeyError"
    ELSE LET value == AfbGetFieldValue(d.CONTAINS.items.field, context)
         IN IF value.type = "AttributeError" THEN "AttributeError"
            ELSE Bool(IsSubstring(Chars(d.CONTAINS.items.value.val),
                                  Chars(ToStr(value).val)))

\* "for child in v": the children a list gives and the characters of a
\* str; the other values here are not iterable.
IsIterable(v) == v.type \in {"list", "str"}
Iterate(v) ==
    IF v.type = "list" THEN v.items
    ELSE [i \in DOMAIN Chars(v.val) |-> PyStr(Chars(v.val)[i])]

\* _evaluate_node(node, context): "true", "false", or the exception it
\* raises.  "AND" in node is a TypeError on None and an int, and false on
\* the strs here, none of which contains a key.
RECURSIVE AfbEvaluateNode(_, _)
AfbEvaluateNode(node, context) ==
    IF node.type \in {"NoneType", "int"} THEN "TypeError"
    ELSE IF node.type # "dict" THEN "Unknown expression node type"
    ELSE LET d == node.items
             results(children) ==
                [i \in DOMAIN children |-> AfbEvaluateNode(children[i], context)]
         IN IF "AND" \in DOMAIN d
            THEN IF ~IsIterable(d.AND) THEN "TypeError"
                 ELSE LET r == results(Iterate(d.AND))
                      IN IF FirstError(r) # None THEN FirstError(r)
                         ELSE Bool(\A i \in DOMAIN r : r[i] = "true")
            ELSE IF "OR" \in DOMAIN d
            THEN IF ~IsIterable(d.OR) THEN "TypeError"
                 ELSE LET r == results(Iterate(d.OR))
                      IN IF FirstError(r) # None THEN FirstError(r)
                         ELSE Bool(\E i \in DOMAIN r : r[i] = "true")
            ELSE IF "NOT" \in DOMAIN d
            THEN LET r == AfbEvaluateNode(d.NOT, context)
                 IN IF IsError(r) THEN r ELSE Bool(r = "false")
            ELSE IF "field" \in DOMAIN d /\ "operator" \in DOMAIN d
            THEN AfbEvaluateComparison(d, context)
            ELSE IF "IN" \in DOMAIN d
            THEN AfbEvaluateMembership(d, context, TRUE)
            ELSE IF "NOT IN" \in DOMAIN d
            THEN AfbEvaluateMembership(d, context, FALSE)
            ELSE IF "MATCHES" \in DOMAIN d
            THEN AfbEvaluatePatternMatch(d, context)
            ELSE IF "CONTAINS" \in DOMAIN d
            THEN AfbEvaluateContains(d, context)
            ELSE "Unknown expression node type"

\* _validate_node(node): None when it returns, the ValueError otherwise.
RECURSIVE AfbValidateNode(_)
AfbValidateNode(node) ==
    IF node.type # "dict" THEN "Expression node must be a dictionary"
    ELSE LET d == node.items
             errors(children) ==
                [i \in DOMAIN children |->
                    IF AfbValidateNode(children[i]) = None THEN "true"
                    ELSE AfbValidateNode(children[i])]
         IN IF "AND" \in DOMAIN d
            THEN IF d.AND.type # "list"
                 THEN "AND operator requires a list of conditions"
                 ELSE FirstError(errors(d.AND.items))
            ELSE IF "OR" \in DOMAIN d
            THEN IF d.OR.type # "list"
                 THEN "OR operator requires a list of conditions"
                 ELSE FirstError(errors(d.OR.items))
            ELSE IF "NOT" \in DOMAIN d THEN AfbValidateNode(d.NOT)
            ELSE IF "field" \in DOMAIN d
            THEN IF "operator" \notin DOMAIN d
                 THEN "Comparison expression requires 'operator'"
                 ELSE IF d.operator.val \notin ComparisonOps \cup NullOps
                 THEN "Unknown operator"
                 ELSE IF d.operator.val \notin NullOps /\ "value" \notin DOMAIN d
                 THEN "Comparison expression requires 'value'"
                 ELSE None
            ELSE IF DOMAIN d \cap {"IN", "NOT IN", "MATCHES", "CONTAINS"} # {}
            THEN None
            ELSE "Invalid expression node structure"

\* validate_rule_syntax(condition)[0]
ValidateRuleSyntax(condition) == AfbValidateNode(condition) = None

\* ----------- prd-quality-gate-flow/business_rules_engine.py: conditions
\* float(v) of an int or a str of digits, as the int of the same value;
\* ValueError for the other strs, TypeError for None.
ToFloat(v) ==
    IF v.type = "int" THEN v
    ELSE IF v.type = "str" THEN ParseInt(v.val)
    ELSE [type |-> "TypeError"]

\* _compare_values(actual, operator, expected)
PrdCompareValues(actual, op, expected) ==
    IF op = "IS NULL" THEN Bool(actual = PyNone)
    ELSE IF op = "IS NOT NULL" THEN Bool(actual # PyNone)
    ELSE IF actual = PyNone THEN "false"
    ELSE IF op = "==" THEN Bool(actual = expected)
    ELSE IF op = "!=" THEN Bool(actual # expected)
    ELSE IF op \in {">", "<", ">=", "<="}
    THEN LET a == ToFloat(actual)
             b == ToFloat(expected)
         IN IF a.type # "int" THEN a.type
            ELSE IF b.type # "int" THEN b.type
            ELSE Bool(CASE op = ">" -> a.val > b.val
                        [] op = "<" -> a.val < b.val
                        [] op = ">=" -> a.val >= b.val
                        [] op = "<=" -> a.val <= b.val)
    ELSE IF op \in {"IN", "NOT IN"}
    THEN IF expected.type # "list" THEN "TypeError"
         ELSE Bool((actual \in Range(expected.items)) = (op = "IN"))
    ELSE "Unknown operator"

\* _get_field_value(field_path, context) for a path of one part.
PrdGetFieldValue(field, context) ==
    IF field.val \in DOMAIN context THEN context[field.val] ELSE PyNone

\* _evaluate_condition(condition, context): "true", "false", or the
\* exception it raises.  all() and any() stop at the first child that
\* decides them.
RECURSIVE PrdEvaluateCondition(_, _)
RECURSIVE PrdAll(_, _, _)
RECURSIVE PrdAny(_, _, _)

\* An all() that gives what the last child gives.
PrdAll_LastChild(children, i, context) ==
    IF children = <<>> THEN "true"
    ELSE PrdEvaluateCondition(children[Len(children)], context)

PrdAll(children, i, context) ==
    IF i > Len(children) THEN "true"
    ELSE LET r == PrdEvaluateCondition(children[i], context)
         IN IF r = "true" THEN PrdAll(children, i + 1, context) ELSE r

PrdAny(children, i, context) ==
    IF i > Len(children) THEN "false"
    ELSE LET r == PrdEvaluateCondition(children[i], context)
         IN IF r = "false" THEN PrdAny(children, i + 1, context) ELSE r

PrdEvaluateCondition(condition, context) ==
    IF condition.type \in {"NoneType", "int"} THEN "TypeError"
    ELSE IF condition.type # "dict" THEN "Invalid condition format"
    ELSE LET d == condition.items
         IN IF "AND" \in DOMAIN d
            THEN IF ~IsIterable(d.AND) THEN "TypeError"
                 ELSE PrdAll(Iterate(d.AND), 1, context)
            ELSE IF "OR" \in DOMAIN d
            THEN IF ~IsIterable(d.OR) THEN "TypeError"
                 ELSE PrdAny(Iterate(d.OR), 1, context)
            ELSE IF "NOT" \in DOMAIN d
            THEN LET r == PrdEvaluateCondition(d.NOT, context)
                 IN IF IsError(r) THEN r ELSE Bool(r = "false")
            ELSE IF "MATCHES" \in DOMAIN d
            THEN IF d.MATCHES.type # "dict" THEN "TypeError"
                 ELSE IF {"field", "pattern"} \ DOMAIN d.MATCHES.items # {}
                 THEN "KeyError"
                 ELSE LET value == PrdGetFieldValue(d.MATCHES.items.field, context)
                      IN IF value = PyNone THEN "false"
                         ELSE Bool(IsPrefix(Chars(d.MATCHES.items.pattern.val),
                                            Chars(ToStr(value).val)))
            ELSE IF "field" \in DOMAIN d /\ "operator" \in DOMAIN d
            THEN PrdCompareValues(PrdGetFieldValue(d.field, context),
                                  d.operator.val, Get(d, "value", PyNone))
            ELSE "Invalid condition format"

\* ------------------------------------------------- the expressions tried
\* The longest list of children of an AND or OR node.
MaxChildren == 2

\* {"field": field, "operator": op, "value": value}
Comparison(field, op, value) ==
    PyDict([field |-> PyStr(field), operator |-> PyStr(op), value |-> value])

\* The leaf comparisons: every operator on the field x, against an int and
\* against a str.
Comparisons ==
    {Comparison("x", op, value) :
        op \in ComparisonOps \cup NullOps, value \in {PyInt(5), PyStr("abc")}}

\* The leaves of the boolean trees, and the trees: a leaf or its negation,
\* an AND or OR of up to MaxChildren of these, or the negation of that.
Leaves == {Comparison("x", "==", PyInt(5)), Comparison("x", "<", PyInt(7))}
Literals == Leaves \cup {PyDict([NOT |-> l]) : l \in Leaves}
ChildLists == UNION {[1..n -> Literals] : n \in 0..MaxChildren}
Junctions ==
    {PyDict([AND |-> PyList(c)]) : c \in ChildLists}
       \cup {PyDict([OR |-> PyList(c)]) : c \in ChildLists}
BooleanTrees == Literals \cup Junctions \cup {PyDict([NOT |-> j]) : j \in Junctions}

\* Nodes with missing parts, parts of the wrong type and unknown keys.
StructuralNodes ==
    LET x == PyStr("x")
        five == PyList(<<PyInt(5)>>)
        null_check == PyDict([field |-> x, operator |-> PyStr("IS NULL")])
    IN { null_check,
         PyDict([field |-> x, operator |-> PyStr("IS NULL"), value |-> PyNone]),
         PyDict([field |-> x, operator |-> PyStr("==")]),
         PyDict([field |-> x, operator |-> PyStr("~="), value |-> PyInt(5)]),
         PyDict([field |-> x]),
         PyDict(("IN" :> x) @@ [field |-> x, values |-> five]),
         PyDict(("IN" :> x) @@ [values |-> five]),
         PyDict("IN" :> x),
         PyDict("IN" :> PyNone),
         PyDict(("NOT IN" :> x) @@ [values |-> five]),
         PyDict("NOT IN" :> PyNone),
         PyDict([MATCHES |-> PyDict([field |-> x, pattern |-> PyStr("5")])]),
         PyDict([MATCHES |-> PyDict([field |-> x])]),
         PyDict([MATCHES |-> PyDict(<<>>)]),
         PyDict([CONTAINS |-> PyDict([field |-> x, value |-> PyStr("5")])]),
         PyDict([CONTAINS |-> PyDict(<<>>)]),
         PyDict(<<>>),
         PyDict([unknown |-> PyInt(5)]),
         PyDict([AND |-> PyStr("")]),
         PyDict([OR |-> PyNone]),
         PyDict([NOT |-> null_check]),
         PyDict([AND |-> PyList(<<Comparison("x", "==", PyInt(5)), null_check>>)]),
         PyStr("abc"),
         PyNone }

\* The contexts: no field x, x null, and x an int or a str.
ExpressionContexts ==
    { <<>>, [x |-> PyNone], [x |-> PyInt(5)], [x |-> PyInt(7)],
      [x |-> PyStr("5")], [x |-> PyStr("abc")] }

\* A condition and a context, nothing called yet: ctl keeps the arguments
\* and what each call came back with.
InitExpr ==
    /\ \E condition \in Comparisons \cup BooleanTrees \cup StructuralNodes :
       \E context \in ExpressionContexts :
          ctl = [op |-> "idle",
                 arg |-> [condition |-> condition, context |-> context,
                          valid |-> None, evaluated |-> None,
                          condition_met |-> None]]
    /\ working_memory = {}
    /\ business_rules = <<>>
    /\ gate_config = <<>>
    /\ call_execution_id = None
    /\ gate_evaluations = <<>>
    /\ audit_log = <<>>
    /\ gate_pc = "idle"
    /\ fetched_rules = <<>>
    /\ gate_result = None
    /\ nodes = <<>>
    /\ executions = <<>>
    /\ node_executions = <<>>
    /\ agent_assignments = <<>>
    /\ agents = <<>>
    /\ stack = <<>>

ExprUnchanged ==
    UNCHANGED <<dbVars, gateVars, nodes, executions, node_executions,
                working_memory, agent_assignments, agents, stack>>

\* engine.validate_rule_syntax(condition) of agentic-flow-builder
ValidateRuleSyntaxCall ==
    /\ ctl.arg.valid = None
    /\ ctl' = [op |-> "validate_rule_syntax",
               arg |-> [ctl.arg EXCEPT
                          !.valid = Bool(ValidateRuleSyntax(ctl.arg.condition))]]
    /\ ExprUnchanged

\* evaluator.evaluate(condition, context) of agentic-flow-builder
EvaluateCall ==
    /\ ctl.arg.evaluated = None
    /\ ctl' = [op |-> "evaluate",
               arg |-> [ctl.arg EXCEPT
                          !.evaluated = AfbEvaluateNode(ctl.arg.condition,
                                                        ctl.arg.context)]]
    /\ ExprUnchanged

\* self._evaluate_condition(condition, context) of prd-quality-gate-flow
EvaluateConditionCall ==
    /\ ctl.arg.condition_met = None
    /\ ctl' = [op |-> "_evaluate_condition",
               arg |-> [ctl.arg EXCEPT
                          !.condition_met = PrdEvaluateCondition(ctl.arg.condition,
                                                                 ctl.arg.context)]]
    /\ ExprUnchanged

NextExpr ==
    \/ ValidateRuleSyntaxCall
    \/ EvaluateCall
    \/ EvaluateConditionCall

SpecExpr == InitExpr /\ [][NextExpr]_vars

\* The errors the shape of the tree causes, whatever the context holds: a
\* missing key, a part of the wrong type, an unknown operator or node.
StructuralErrors ==
    {"KeyError", "TypeError", "AttributeError", "Unknown operator",
     "Unknown expression node type"}

\* C33: validate_rule_syntax reports a tree valid exactly when the
\* evaluator evaluates it to true or false without a structural error,
\* null checks without a value and IN, NOT IN, MATCHES and CONTAINS nodes
\* with missing parts included.
C33_ValidIffEvaluates ==
    (ctl.arg.valid # None /\ ctl.arg.evaluated # None)
       => ((ctl.arg.valid = "true") <=> (ctl.arg.evaluated \notin StructuralErrors))

\* The leaf comparisons of a tree of AND, OR and NOT nodes.
RECURSIVE LeavesOf(_)
LeavesOf(tree) ==
    LET d == tree.items
    IN IF "AND" \in DOMAIN d
       THEN UNION {LeavesOf(d.AND.items[i]) : i \in DOMAIN d.AND.items}
       ELSE IF "OR" \in DOMAIN d
       THEN UNION {LeavesOf(d.OR.items[i]) : i \in DOMAIN d.OR.items}
       ELSE IF "NOT" \in DOMAIN d THEN LeavesOf(d.NOT)
       ELSE {tree}

\* The boolean composition of the leaf results: holds(leaf) says whether
\* the leaf alone evaluates to true.
RECURSIVE Composition(_, _)
Composition(tree, holds) ==
    LET d == tree.items
    IN IF "AND" \in DOMAIN d
       THEN \A i \in DOMAIN d.AND.items : Composition(d.AND.items[i], holds)
       ELSE IF "OR" \in DOMAIN d
       THEN \E i \in DOMAIN d.OR.items : Composition(d.OR.items[i], holds)
       ELSE IF "NOT" \in DOMAIN d THEN ~Composition(d.NOT, holds)
       ELSE holds[tree]

\* NOT (AND [a, b, ...]) rewritten as OR [NOT a, NOT b, ...].
DeMorgan(tree) ==
    LET children == tree.items.NOT.items.AND.items
    IN PyDict([OR |-> PyList([i \in DOMAIN children |->
                                 PyDict([NOT |-> children[i]])])])

IsNotAnd(tree) ==
    /\ "NOT" \in DOMAIN tree.items
    /\ "AND" \in DOMAIN tree.items.NOT.items

\* C34: for a tree of AND, OR and NOT over leaf comparisons that have a
\* result in the context, both evaluators give the boolean composition of
\* the leaf results: AND [] is true, OR [] is false, and NOT (AND [a, b])
\* gives what OR [NOT a, NOT b] gives.
C34_BooleanComposition ==
    LET tree == ctl.arg.condition
        context == ctl.arg.context
        afb_leaf == [l \in LeavesOf(tree) |-> AfbEvaluateNode(l, context)]
        prd_leaf == [l \in LeavesOf(tree) |-> PrdEvaluateCondition(l, context)]
    IN tree \in BooleanTrees =>
          /\ (ctl.arg.evaluated # None
                 /\ \A l \in LeavesOf(tree) : ~IsError(afb_leaf[l]))
                => /\ ctl.arg.evaluated
                         = Bool(Composition(tree, [l \in LeavesOf(tree) |->
                                                      afb_leaf[l] = "true"]))
                   /\ tree = PyDict([AND |-> PyList(<<>>)])
                         => ctl.arg.evaluated = "true"
                   /\ tree = PyDict([OR |-> PyList(<<>>)])
                         => ctl.arg.evaluated = "false"
          /\ (ctl.arg.condition_met # None
                 /\ \A l \in LeavesOf(tree) : ~IsError(prd_leaf[l]))
                => /\ ctl.arg.condition_met
                         = Bool(Composition(tree, [l \in LeavesOf(tree) |->
                                                      prd_leaf[l] = "true"]))
                   /\ tree = PyDict([AND |-> PyList(<<>>)])
                         => ctl.arg.condition_met = "true"
                   /\ tree = PyDict([OR |-> PyList(<<>>)])
                         => ctl.arg.condition_met = "false"
          /\ (ctl.arg.evaluated # None /\ IsNotAnd(tree))
                => ctl.arg.evaluated = AfbEvaluateNode(DeMorgan(tree), context)
          /\ (ctl.arg.condition_met # None /\ IsNotAnd(tree))
                => ctl.arg.condition_met
                      = PrdEvaluateCondition(DeMorgan(tree), context)

\* Both evaluators have evaluated NOT (AND [a, b]) of two different
\* children, one of which does not hold, to true.
C34_Witness ==
    /\ ctl.arg.condition \in BooleanTrees
    /\ IsNotAnd(ctl.arg.condition)
    /\ LET children == ctl.arg.condition.items.NOT.items.AND.items
       IN /\ Len(children) = 2
          /\ children[1] # children[2]
          /\ AfbEvaluateNode(children[1], ctl.arg.context) = "true"
          /\ AfbEvaluateNode(children[2], ctl.arg.context) = "false"
    /\ ctl.arg.evaluated = "true"
    /\ ctl.arg.condition_met = "true"

\* The field of the comparison resolves to nothing in the context.
FieldAbsent(comparison, context) ==
    AfbGetFieldValue(comparison.items.field, context) = PyNone

\* The field holds a str that is no number while an int is expected.
NotCoercible(comparison, context) ==
    LET actual == AfbGetFieldValue(comparison.items.field, context)
    IN /\ actual.type = "str"
       /\ comparison.items.value.type = "int"
       /\ ParseInt(actual.val).type # "int"

\* C35: a leaf comparison with ==, !=, <, >, <= or >= whose field is absent
\* or whose value cannot be coerced to the type of the expected value
\* evaluates to false and raises nothing; on an absent field IS NULL is
\* true and IS NOT NULL is false.
C35_AbsentOrUncoercibleIsFalse ==
    LET comparison == ctl.arg.condition
        context == ctl.arg.context
        results == {ctl.arg.evaluated, ctl.arg.condition_met} \ {None}
    IN comparison \in Comparisons =>
          /\ (/\ comparison.items.operator.val \in ComparisonOps
              /\ FieldAbsent(comparison, context) \/ NotCoercible(comparison, context))
                => results \subseteq {"false"}
          /\ (/\ comparison.items.operator.val = "IS NULL"
              /\ FieldAbsent(comparison, context))
                => results \subseteq {"true"}
          /\ (/\ comparison.items.operator.val = "IS NOT NULL"
              /\ FieldAbsent(comparison, context))
                => results \subseteq {"false"}

\* ------------------------------------------------ execute_flow under the
\* event loop: a coroutine that can take its next step takes it.
LiveAfb == SpecAfb /\ WF_vars(NextAfb)
LivePrd == SpecPrd /\ WF_vars(NextPrd)

\* C36: execute_flow terminates, by returning or by raising, for every
\* node tree, initial context and outcome of the rules and agents, and the
\* Execution is then completed or failed, not pending or in progress.
C36_ExecuteFlowTerminates ==
    /\ <>FlowEnded
    /\ [](FlowEnded => executions[1].status \in {"completed", "failed"})

\* execute_flow has ended by raising, after at least MaxNodes node
\* executions.
C36_Witness ==
    /\ FlowEnded
    /\ executions[1].status = "failed"
    /\ Len(node_executions) >= MaxNodes

\* C37: when an evaluator-optimizer node has performed at least one
\* iteration, the best_result it returns is the generation of one of the
\* iterations of its trace and best_score is the highest score of the
\* trace, also when every score is zero or missing.
C37_BestIsFromTrace ==
    \A k \in DOMAIN node_executions :
       LET row == node_executions[k]
           out == row.output_data
       IN (/\ row.node_id \in PatternNodes("evaluator_optimizer")
           /\ row.status = "completed"
           /\ Len(out.iterations) >= 1)
             => /\ \E i \in DOMAIN out.iterations :
                      out.best_result = out.iterations[i].generation
                /\ \E i \in DOMAIN out.iterations :
                      /\ out.best_score = out.iterations[i].score
                      /\ \A j \in DOMAIN out.iterations :
                            out.iterations[j].score <= out.best_score

\* C38: every agent assignment an agent node created is completed before
\* the node returns or raises, successful when the invocation succeeded
\* and unsuccessful when it raised, and the agent's status is available
\* again in both cases.
C38_AssignmentsCompleted ==
    /\ [](\A i \in DOMAIN agent_assignments :
             /\ agent_assignments[i].completed
             /\ \A a \in DOMAIN agents :
                   agents[a].agent_id = agent_assignments[i].agent_id
                      => agents[a].status = "available")
    /\ [][agent_assignments' # agent_assignments =>
             LET assignment == agent_assignments'[Len(agent_assignments')]
             IN /\ Len(agent_assignments') = Len(agent_assignments) + 1
                /\ assignment.node_id = ctl.arg.node_id
                /\ assignment.completed
                /\ assignment.success = (ctl'.op # "raise")]_vars

\* The agent has a successful and then an unsuccessful assignment, the
\* flow has ended, and the agent is available.
C38_Witness ==
    /\ \E i, j \in DOMAIN agent_assignments :
          /\ agent_assignments[i].success = TRUE
          /\ agent_assignments[j].success = FALSE
          /\ i < j
    /\ FlowEnded
    /\ \E a \in DOMAIN agents : agents[a].status = "available"
    /\ \E k \in DOMAIN node_executions :
          node_executions[k].error = "agent invocation failed"

\* C39: whatever evaluate_gate decides and whatever the gate's config, the
\* gate node raises the rejection (on KILL and REJECT), or returns a
\* record with gate_passed and the decision, or, on a pass with a child,
\* goes on to that child; it returns no empty result and does not fail on
\* an unknown decision.
C39_GateRaisesOrReturnsDecision ==
    [][(ctl.op = "call" /\ nodes[ctl.arg].node_type = "gate") =>
          LET decision == gate_result'.decision
          IN \/ /\ ctl'.op = "raise"
                /\ ctl'.arg = "Gate rejected"
                /\ decision \in {"KILL", "REJECT"}
             \/ /\ ctl'.op = "return"
                /\ {"gate_passed", "decision"} \subseteq DOMAIN ctl'.arg
                /\ ctl'.arg.decision = decision
                /\ ctl'.arg.gate_passed = (decision \in PassDecisions)
             \/ /\ ctl'.op = "call"
                /\ decision \in PassDecisions]_vars

====
